---- MODULE Spec2Model ----
(***************************************************************************)
(* A model of the TFTP endpoint of awaken1988/tftp:                        *)
(*   - the block-number ring arithmetic (tftp_protocol.rs, ring_diff),     *)
(*   - the SEND engine SendStateMachine (tftp_protocol/send.rs) driven by  *)
(*     the loop of client.rs upload_action,                                *)
(*   - the RECV engine RecvController (tftp_protocol/recv.rs) driven by    *)
(*     the callbacks of client.rs download_action,                         *)
(*   - a datagram channel between the two engines,                         *)
(*   - the server session Connection (server/connection.rs) with the       *)
(*     shared file-lock table and the file system it touches.              *)
(***************************************************************************)
EXTENDS Integers, Sequences, FiniteSets, TLC

(***************************************************************************)
(* Program constants.                                                      *)
(***************************************************************************)
RETRY_COUNT == 3
DEFAULT_BLOCKSIZE == 512
DEFAULT_WINDOWSIZE == 1
ACK_LEN == 4
U16 == 65536
MAX_BLOCKSIZE == 1024
U8_MAX == 255

(***************************************************************************)
(* Bounds of the model.                                                    *)
(***************************************************************************)
MaxLen == 3
MaxBlk == 2
MaxWin == 2
MaxFaults == 2
NSess == 2
MaxUpBlocks == 2
LongLen == 257
WrapLen == 65536
DropLen == 5
DropWin == 4

VARIABLES
    build,      \* "debug" | "release": how the binary treats integer overflow
    srcLen,     \* length of the byte source handed to the SEND engine
    snd,        \* SendStateMachine fields
    s_pc,       \* position of upload_action's loop
    s_out,      \* the frames of the last SendBuffer emission
    rcv,        \* RecvController fields
    r_pc,       \* position of RecvController::run
    r_ev,       \* the last iteration of fill_window: datagram, outcome, ACK emitted
    d2r,        \* DATA datagrams in flight towards the receiver
    a2s,        \* ACK datagrams in flight towards the sender
    sinkLen,    \* number of bytes the WriteSink callback has written
    sinkOk,     \* every byte written so far equals the source byte at its offset
    faults,     \* faults (loss, duplication, delay past a timeout) the channel may still commit
    write_mode, \* ServerSettings.write_mode
    lockmap,    \* the shared FileLockMap: path -> FileLockMode
    fs,         \* the file system: location -> file length, Absent when there is no file
    sess,       \* the server sessions (Connection), one record each
    cli,        \* the client program (client_main): position, arguments, socket
    call        \* the last call of a function of the protocol module: arguments and result

evars == <<build, srcLen, snd, s_pc, s_out, rcv, r_pc, r_ev, d2r, a2s,
           sinkLen, sinkOk, faults, cli, call>>

svars == <<write_mode, lockmap, fs, sess>>

vars == <<evars, svars>>

(***************************************************************************)
(* The byte source.  Byte i (1-based) of the source; 251 is prime, so the  *)
(* payloads of blocks 256 apart differ.                                    *)
(***************************************************************************)
ByteMod == 251

SrcByte(i) == i % ByteMod

RECURSIVE SrcBytes(_, _)
SrcBytes(from, n) ==
    IF n = 0 THEN <<>> ELSE <<SrcByte(from + 1)>> \o SrcBytes(from + 1, n - 1)

Min(a, b) == IF a <= b THEN a ELSE b

(***************************************************************************)
(* ring_diff.  The subtraction is done in usize.  When it underflows a     *)
(* debug build panics and a release build wraps to a value near 2^64,      *)
(* which is larger than any window size; Underflow stands for that result. *)
(***************************************************************************)
Underflow == -1

ring_diff(a, b) ==
    IF a <= b THEN b - a
    ELSE IF U8_MAX + b + 1 >= a THEN (U8_MAX + b + 1) - a
    ELSE Underflow

\* u16::overflowing_add(..).0
AddU16(a, n) == (a + n) % U16

(***************************************************************************)
(* Datagrams.                                                              *)
(***************************************************************************)
Data(blk, data) == [op |-> "DATA", blk |-> blk, data |-> data]
Ack(blk) == [op |-> "ACK", blk |-> blk, data |-> <<>>]
NoPkt == [op |-> "NONE", blk |-> 0, data |-> <<>>]

(***************************************************************************)
(* SEND engine.                                                            *)
(***************************************************************************)
SendStateMachine_new(blksize, windowssize) ==
    [windowssize |-> windowssize, blksize |-> blksize, bufs |-> <<>>,
     acked |-> 0, new_acked |-> TRUE, is_reader_end |-> FALSE,
     is_end |-> FALSE, timeout |-> "unset", retry |-> RETRY_COUNT,
     data_read |-> 0, panic |-> FALSE]

\* reader.read(filebuf): a file yields min(blksize, remaining) bytes
ReadLen(s) == Min(s.blksize, srcLen - s.data_read)

\* impl_next numbering every frame of the window acked + 1
RECURSIVE impl_next_same_blknum(_)
impl_next_same_blknum(s) ==
    IF Len(s.bufs) >= s.windowssize \/ s.is_reader_end THEN s
    ELSE LET read_len == ReadLen(s)
             next_blknum == AddU16(s.acked, 1)
             frame == Data(next_blknum, SrcBytes(s.data_read, read_len))
         IN impl_next_same_blknum([s EXCEPT !.bufs = Append(@, frame),
                                            !.data_read = @ + read_len,
                                            !.is_reader_end = read_len < s.blksize])

\* impl_next without the frame of an empty read
RECURSIVE impl_next_skip_empty(_)
impl_next_skip_empty(s) ==
    IF Len(s.bufs) >= s.windowssize \/ s.is_reader_end THEN s
    ELSE LET read_len == ReadLen(s)
             next_blknum == AddU16(AddU16(s.acked, Len(s.bufs)), 1)
             frame == Data(next_blknum, SrcBytes(s.data_read, read_len))
         IN impl_next_skip_empty(
                [s EXCEPT !.bufs = IF read_len = 0 THEN @ ELSE Append(@, frame),
                          !.data_read = @ + read_len,
                          !.is_reader_end = read_len < s.blksize])

RECURSIVE impl_next(_)
impl_next(s) ==
    IF Len(s.bufs) >= s.windowssize \/ s.is_reader_end THEN s
    ELSE LET read_len == ReadLen(s)
             next_blknum == AddU16(AddU16(s.acked, Len(s.bufs)), 1)
             frame == Data(next_blknum, SrcBytes(s.data_read, read_len))
         IN impl_next([s EXCEPT !.bufs = Append(@, frame),
                                !.data_read = @ + read_len,
                                !.is_reader_end = read_len < s.blksize])

\* the for loop of ack: pops diff frames; Vec::remove(0) panics on an empty queue
RECURSIVE PopFrames(_, _)
PopFrames(s, n) ==
    IF n = 0 \/ s.panic THEN s
    ELSE IF s.bufs = <<>> THEN [s EXCEPT !.new_acked = TRUE, !.panic = TRUE]
    ELSE PopFrames([s EXCEPT !.new_acked = TRUE, !.bufs = Tail(@),
                             !.acked = AddU16(@, 1)], n - 1)

\* ack without the test that the queue is empty: any ACK after the reader's
\* end ends the transfer
ack_end_at_reader_end(s, blknum) ==
    LET diff == ring_diff(s.acked, blknum) IN
    IF diff = Underflow
    THEN IF build = "debug" THEN [s EXCEPT !.panic = TRUE] ELSE s
    ELSE IF diff > s.windowssize THEN s
    ELSE LET p == PopFrames(s, diff)
             e == IF p.is_reader_end THEN [p EXCEPT !.is_end = TRUE] ELSE p
         IN IF p.panic THEN p
            ELSE IF e.new_acked
                 THEN [e EXCEPT !.timeout = "unset", !.retry = RETRY_COUNT]
                 ELSE e

ack(s, blknum) ==
    LET diff == ring_diff(s.acked, blknum) IN
    IF diff = Underflow
    THEN IF build = "debug" THEN [s EXCEPT !.panic = TRUE] ELSE s
    ELSE IF diff > s.windowssize THEN s
    ELSE LET p == PopFrames(s, diff)
             e == IF p.is_reader_end /\ p.bufs = <<>>
                  THEN [p EXCEPT !.is_end = TRUE] ELSE p
         IN IF p.panic THEN p
            ELSE IF e.new_acked
                 THEN [e EXCEPT !.timeout = "unset", !.retry = RETRY_COUNT]
                 ELSE e

\* a datagram of exactly ACK_LEN bytes with opcode ACK
ack_packet(s, pkt) ==
    IF pkt.op = "ACK" THEN ack(s, pkt.blk) ELSE s

\* a timer that starts and never expires
OneshotTimer_never_expires(t, elapsed) ==
    IF t = "unset" THEN "running" ELSE t

\* OneshotTimer::is_timeout; elapsed: RESEND_TIMEOUT has passed since the start
OneshotTimer_after(t, elapsed) ==
    IF t = "unset" THEN "running"
    ELSE IF t = "running" /\ elapsed THEN "expired"
    ELSE t

OneshotTimer_is_timeout(t, elapsed) == OneshotTimer_after(t, elapsed) = "expired"

\* next reporting End as soon as the reader has ended, whatever is queued
next_end_on_reader_end(s, elapsed) ==
    IF s.is_end \/ s.is_reader_end THEN [st |-> s, action |-> "End"]
    ELSE LET s1 == impl_next(s) IN
         IF s1.new_acked
         THEN [st |-> [s1 EXCEPT !.new_acked = FALSE], action |-> "SendBuffer"]
         ELSE LET s2 == [s1 EXCEPT !.timeout = OneshotTimer_after(@, elapsed)] IN
              IF OneshotTimer_is_timeout(s1.timeout, elapsed)
              THEN IF s2.retry = 0
                   THEN [st |-> s2, action |-> "Timeout"]
                   ELSE [st |-> [s2 EXCEPT !.retry = @ - 1], action |-> "SendBuffer"]
              ELSE [st |-> s2, action |-> "NoOp"]

\* SendStateMachine::next: the new state and the SendAction returned
next(s, elapsed) ==
    IF s.is_end THEN [st |-> s, action |-> "End"]
    ELSE LET s1 == IF ~s.is_reader_end THEN impl_next(s) ELSE s IN
         IF s1.new_acked
         THEN [st |-> [s1 EXCEPT !.new_acked = FALSE], action |-> "SendBuffer"]
         ELSE LET s2 == [s1 EXCEPT !.timeout = OneshotTimer_after(@, elapsed)] IN
              IF OneshotTimer_is_timeout(s1.timeout, elapsed)
              THEN IF s2.retry = 0
                   THEN [st |-> s2, action |-> "Timeout"]
                   ELSE [st |-> [s2 EXCEPT !.retry = @ - 1], action |-> "SendBuffer"]
              ELSE [st |-> s2, action |-> "NoOp"]

FramesOf(bufs) == {bufs[i] : i \in 1..Len(bufs)}

(***************************************************************************)
(* RECV engine.                                                            *)
(***************************************************************************)
None == <<-1>>

RecvController_new(windowsize, blksize) ==
    [windowssize |-> windowsize, blksize |-> blksize, acked |-> 0,
     window_buf |-> [i \in 1..windowsize |-> None], i_retry |-> 0]

\* (ready_blocks, is_last)
RECURSIVE is_complete_from(_, _)
is_complete_from(r, i) ==
    IF i > Len(r.window_buf) THEN [count |-> i - 1, is_last |-> FALSE]
    ELSE IF r.window_buf[i] = None THEN [count |-> i - 1, is_last |-> FALSE]
    ELSE IF Len(r.window_buf[i]) < r.blksize THEN [count |-> i, is_last |-> TRUE]
    ELSE is_complete_from(r, i + 1)

is_complete(r) == is_complete_from(r, 1)

RECURSIVE Concat(_, _)
Concat(w, n) == IF n = 0 THEN <<>> ELSE Concat(w, n - 1) \o w[n]

\* Vec::remove(0) and push(None), n times
ShiftWindow(w, n) ==
    [i \in 1..Len(w) |-> IF i + n <= Len(w) THEN w[i + n] ELSE None]

\* write_window flushing full windows only: a short final block that does
\* not fill the window is never written
Flushes_full_window_only(r) ==
    is_complete(r).count = r.windowssize

\* whether write_window flushes
Flushes(r) ==
    LET c == is_complete(r) IN c.count = r.windowssize \/ c.is_last

\* the engine after the flush of write_window (incr_send_ack included)
write_window(r) ==
    LET c == is_complete(r) IN
    [r EXCEPT !.window_buf = ShiftWindow(@, c.count),
              !.acked = AddU16(@, c.count)]

\* the decision of one iteration of fill_window on a received datagram:
\* "panic", "continue" or "store"
Admit(r, pkt) ==
    IF pkt.op = "NONE" THEN "continue"
    ELSE IF pkt.op # "DATA" THEN "continue"
    ELSE LET diff == ring_diff(r.acked, pkt.blk) IN
         IF diff = Underflow
         THEN IF build = "debug" THEN "panic" ELSE "continue"
         ELSE IF diff > r.windowssize \/ diff = 0 THEN "continue"
         ELSE IF r.window_buf[diff] # None THEN "continue"
         ELSE "store"

SlotOf(r, pkt) == ring_diff(r.acked, pkt.blk)

(***************************************************************************)
(* The sender's loop (upload_action).                                      *)
(***************************************************************************)
chan_unch == UNCHANGED faults
recv_unch == UNCHANGED <<rcv, r_pc, r_ev, sinkLen, sinkOk>>
send_unch == UNCHANGED <<snd, s_pc, s_out>>
conf_unch == UNCHANGED <<build, srcLen, svars, call>>
cli_unch == UNCHANGED cli

\* window_buffer.next() and the match on its SendAction
\* a datagram is on its way to an endpoint that is waiting for one
InFlight ==
    \/ (d2r # {} /\ r_pc = "recv")
    \/ (a2s # {} /\ s_pc \in {"next", "recv"})

\* a timer that expires while a datagram is in flight is a delay fault of the channel
Expiry(expired) ==
    IF expired /\ InFlight
    THEN faults > 0 /\ faults' = faults - 1
    ELSE UNCHANGED faults

SenderNextStep(elapsed) ==
    /\ s_pc = "next"
    /\ elapsed => (~snd.is_end /\ snd.timeout = "running" /\ ~impl_next(snd).new_acked)
    /\ Expiry(elapsed)
    /\ LET n == next(snd, elapsed) IN
       /\ snd' = n.st
       /\ s_pc' = CASE n.action = "End" -> "end"
                    [] n.action = "Timeout" -> "timeout"
                    [] OTHER -> "recv"
       /\ IF n.action = "SendBuffer"
          THEN /\ d2r' = d2r \cup FramesOf(n.st.bufs)
               /\ s_out' = n.st.bufs
          ELSE UNCHANGED <<d2r, s_out>>
    /\ UNCHANGED a2s
    /\ recv_unch /\ conf_unch

SenderNext(elapsed) == SenderNextStep(elapsed) /\ cli_unch

\* the loop without parse_error: every datagram goes to ack_packet
SenderHandle_without_parse_error(pkt) ==
    /\ snd' = ack_packet(snd, pkt)
    /\ s_pc' = IF ack_packet(snd, pkt).panic THEN "panic" ELSE "next"
    /\ UNCHANGED <<s_out, d2r>>
    /\ recv_unch /\ conf_unch

\* socket.recv_next delivered pkt; parse_error; ack_packet
SenderHandle(pkt) ==
    /\ IF pkt.op = "ERROR"
       THEN /\ s_pc' = "error"
            /\ UNCHANGED snd
       ELSE LET s1 == ack_packet(snd, pkt) IN
            /\ snd' = s1
            /\ s_pc' = IF s1.panic THEN "panic" ELSE "next"
    /\ UNCHANGED <<s_out, d2r>>
    /\ recv_unch /\ conf_unch

SenderRecv(pkt) ==
    /\ s_pc = "recv"
    /\ pkt \in a2s
    /\ a2s' = a2s \ {pkt}
    /\ SenderHandle(pkt)
    /\ chan_unch /\ cli_unch

\* the channel delivers a datagram and keeps a copy in flight
SenderRecvDup(pkt) ==
    /\ s_pc = "recv"
    /\ pkt \in a2s
    /\ faults > 0
    /\ faults' = faults - 1
    /\ UNCHANGED a2s
    /\ SenderHandle(pkt)
    /\ cli_unch

\* socket.recv_next returned false after SEND_RECV_BLOCK_TIMEOUT
SenderRecvTimeout ==
    /\ s_pc = "recv"
    /\ s_pc' = "next"
    /\ UNCHANGED <<snd, s_out, d2r, a2s>>
    /\ recv_unch /\ chan_unch /\ conf_unch /\ cli_unch

(***************************************************************************)
(* The receiver's loop (RecvController::run): one iteration of the for     *)
(* loop of fill_window, from the return of the Recv callback to the next   *)
(* call of it, write_window included.                                      *)
(***************************************************************************)
\* the ACK one iteration emits: "flush" from incr_send_ack in write_window,
\* "resend" from resend_ack at the head of the next iteration, or "none"
AckOf(r, pkt) ==
    LET d == Admit(r, pkt) IN
    IF d = "store"
    THEN IF Flushes([r EXCEPT !.window_buf[SlotOf(r, pkt)] = pkt.data])
         THEN "flush" ELSE "none"
    ELSE IF d = "continue" /\ r.i_retry + 1 < RETRY_COUNT /\ r.acked > 0
         THEN "resend" ELSE "none"

\* no iteration of fill_window has run
NoEvent == [kind |-> "none", op |-> "NONE", blk |-> 0, acked |-> 0, ack |-> "none"]

ReceiverHandle(pkt) ==
    LET d == Admit(rcv, pkt) IN
    /\ r_ev' = [kind |-> IF pkt.op = "NONE" THEN "timeout"
                         ELSE IF d = "store" THEN "store"
                         ELSE IF d = "panic" THEN "panic" ELSE "reject",
                op |-> pkt.op, blk |-> pkt.blk, acked |-> rcv.acked,
                ack |-> AckOf(rcv, pkt)]
    /\ CASE d = "panic" ->
              /\ r_pc' = "panic"
              /\ UNCHANGED <<rcv, a2s, sinkLen, sinkOk>>
         [] d = "continue" /\ rcv.i_retry + 1 >= RETRY_COUNT ->
              /\ r_pc' = "err"
              /\ rcv' = [rcv EXCEPT !.i_retry = @ + 1]
              /\ UNCHANGED <<a2s, sinkLen, sinkOk>>
         [] d = "continue" /\ rcv.i_retry + 1 < RETRY_COUNT ->
              /\ r_pc' = "recv"
              /\ rcv' = [rcv EXCEPT !.i_retry = @ + 1]
              /\ a2s' = IF rcv.acked > 0 THEN a2s \cup {Ack(rcv.acked)} ELSE a2s
              /\ UNCHANGED <<sinkLen, sinkOk>>
         [] d = "store" ->
              LET r1 == [rcv EXCEPT !.window_buf[SlotOf(rcv, pkt)] = pkt.data,
                                    !.i_retry = 0]
                  c == is_complete(r1)
                  bytes == Concat(r1.window_buf, c.count)
              IN IF Flushes(r1)
                 THEN /\ rcv' = write_window(r1)
                      /\ sinkLen' = sinkLen + Len(bytes)
                      /\ sinkOk' = (sinkOk /\ sinkLen + Len(bytes) <= srcLen
                                     /\ bytes = SrcBytes(sinkLen, Len(bytes)))
                      /\ a2s' = a2s \cup {Ack(write_window(r1).acked)}
                      /\ r_pc' = IF c.is_last THEN "ok" ELSE "recv"
                 ELSE /\ rcv' = r1
                      /\ r_pc' = "recv"
                      /\ UNCHANGED <<a2s, sinkLen, sinkOk>>
    /\ send_unch /\ conf_unch

ReceiverRecv(pkt) ==
    /\ r_pc = "recv"
    /\ pkt \in d2r
    /\ d2r' = d2r \ {pkt}
    /\ ReceiverHandle(pkt)
    /\ chan_unch /\ cli_unch

ReceiverRecvDup(pkt) ==
    /\ r_pc = "recv"
    /\ pkt \in d2r
    /\ faults > 0
    /\ faults' = faults - 1
    /\ UNCHANGED d2r
    /\ ReceiverHandle(pkt)
    /\ cli_unch

\* the Recv callback left the buffer empty after RECV_TIMEOUT
ReceiverRecvTimeout ==
    /\ r_pc = "recv"
    /\ UNCHANGED d2r
    /\ ReceiverHandle(NoPkt)
    /\ Expiry(TRUE)
    /\ cli_unch

(***************************************************************************)
(* The channel loses a datagram.                                           *)
(***************************************************************************)
LoseData(pkt) ==
    /\ pkt \in d2r
    /\ faults > 0
    /\ faults' = faults - 1
    /\ d2r' = d2r \ {pkt}
    /\ UNCHANGED a2s
    /\ send_unch /\ recv_unch /\ conf_unch /\ cli_unch

LoseAck(pkt) ==
    /\ pkt \in a2s
    /\ faults > 0
    /\ faults' = faults - 1
    /\ a2s' = a2s \ {pkt}
    /\ UNCHANGED d2r
    /\ send_unch /\ recv_unch /\ conf_unch /\ cli_unch


(***************************************************************************)
(* Server: paths.  A path is the sequence of its components below "/".     *)
(***************************************************************************)
root_dir == <<"srv">>

\* request file names: relative ones and an absolute one
FileNames ==
    { [abs |-> FALSE, comps |-> <<"a">>],
      [abs |-> FALSE, comps |-> <<"b">>],
      [abs |-> FALSE, comps |-> <<"..", "x">>],
      [abs |-> TRUE, comps |-> <<"x">>] }

\* Path::join: an absolute argument replaces the base
PathJoin(base, f) == IF f.abs THEN f.comps ELSE base \o f.comps

\* Path::starts_with: a prefix of whole components; ".." is not resolved
PathStartsWith(p, base) ==
    Len(p) >= Len(base) /\ SubSeq(p, 1, Len(base)) = base

\* the location the operating system resolves a path to
RECURSIVE Resolve(_)
Resolve(p) ==
    IF p = <<>> THEN <<>>
    ELSE LET front == Resolve(SubSeq(p, 1, Len(p) - 1))
             last == p[Len(p)]
         IN IF last = ".."
            THEN IF front = <<>> THEN <<>> ELSE SubSeq(front, 1, Len(front) - 1)
            ELSE Append(front, last)

PathKeys == {PathJoin(root_dir, f) : f \in FileNames}
Locations == {Resolve(p) : p \in PathKeys}
NoPath == <<"-">>
Absent == -1

\* get_file_path without the starts_with test
get_file_path_unchecked(path_relative) == PathJoin(root_dir, path_relative)

\* get_file_path: the full path, or NoPath for Err(FileNotFound)
get_file_path(path_relative) ==
    LET full_path == PathJoin(root_dir, path_relative) IN
    IF ~PathStartsWith(full_path, root_dir) THEN NoPath ELSE full_path

(***************************************************************************)
(* Server: the file-lock table.                                            *)
(***************************************************************************)
Unlocked == [mode |-> "None", n |-> 0]
LockRead(n) == [mode |-> "Read", n |-> n]
LockWrite == [mode |-> "Write", n |-> 0]

\* check_lock_file where a writer takes over an entry held by readers
check_lock_file_write_over_read(lockset, path, mode) ==
    IF lockset[path] # Unlocked
    THEN IF mode.mode = "Read" /\ lockset[path].mode = "Read"
         THEN [ret |-> TRUE,
               lockset |-> [lockset EXCEPT ![path] = LockRead(@.n + 1)],
               locked |-> TRUE]
         ELSE IF mode.mode = "Write" /\ lockset[path].mode = "Read"
         THEN [ret |-> TRUE, lockset |-> [lockset EXCEPT ![path] = mode],
               locked |-> FALSE]
         ELSE [ret |-> FALSE, lockset |-> lockset, locked |-> FALSE]
    ELSE [ret |-> TRUE, lockset |-> [lockset EXCEPT ![path] = mode],
          locked |-> FALSE]

\* check_lock_file where a reader is admitted beside a writer
check_lock_file_read_beside_write(lockset, path, mode) ==
    IF lockset[path] # Unlocked
    THEN IF mode.mode = "Read" /\ lockset[path].mode = "Read"
         THEN [ret |-> TRUE,
               lockset |-> [lockset EXCEPT ![path] = LockRead(@.n + 1)],
               locked |-> TRUE]
         ELSE IF mode.mode = "Read" /\ lockset[path].mode = "Write"
         THEN [ret |-> TRUE, lockset |-> lockset, locked |-> FALSE]
         ELSE [ret |-> FALSE, lockset |-> lockset, locked |-> FALSE]
    ELSE [ret |-> TRUE, lockset |-> [lockset EXCEPT ![path] = mode],
          locked |-> FALSE]

\* check_lock_file: the value returned, the table afterwards and whether
\* self.locked was set
check_lock_file(lockset, path, mode) ==
    IF lockset[path] # Unlocked
    THEN IF mode.mode = "Read" /\ lockset[path].mode = "Read"
         THEN [ret |-> TRUE,
               lockset |-> [lockset EXCEPT ![path] = LockRead(@.n + 1)],
               locked |-> TRUE]
         ELSE [ret |-> FALSE, lockset |-> lockset, locked |-> FALSE]
    ELSE [ret |-> TRUE, lockset |-> [lockset EXCEPT ![path] = mode],
          locked |-> FALSE]

unlock_file(lockset, path) ==
    IF lockset[path] # Unlocked
    THEN IF lockset[path].mode = "Read"
         THEN IF lockset[path].n - 1 = 0
              THEN [lockset EXCEPT ![path] = Unlocked]
              ELSE [lockset EXCEPT ![path] = LockRead(@.n - 1)]
         ELSE [lockset EXCEPT ![path] = Unlocked]
    ELSE lockset

(***************************************************************************)
(* Server: packets a session sends, and error responses.                   *)
(***************************************************************************)
NotDefined == 0
FileNotFound == 1
AccessViolation == 2
FileAlreadyExists == 6

Pkt(op, blk, len, msg) == [op |-> op, blk |-> blk, len |-> len, msg |-> msg]

\* send_error: the message of an ErrorResponse without one is "unknown"
ErrorPkt(number, msg) == Pkt("ERROR", number, 0, msg)

ErrNone == [number |-> -1, msg |-> ""]
ErrNumber(number) == [number |-> number, msg |-> "unknown"]
ErrCustom(msg) == [number |-> NotDefined, msg |-> msg]

(***************************************************************************)
(* The option extension of a request: the values of blksize and windowsize *)
(* as the numbers their decimal strings denote (NotCarried: the option is  *)
(* not in the request) and whether another, unknown option is carried.     *)
(***************************************************************************)
NotCarried == -1

NoOpts == [blksize |-> NotCarried, windowsize |-> NotCarried, other |-> FALSE]

\* u16::from_str_radix(value, 10) is Ok
ParsesU16(v) == v \in 0..(U16 - 1)

ExtendedOptions_new == [blksize |-> DEFAULT_BLOCKSIZE, windowsize |-> DEFAULT_WINDOWSIZE]

\* filter_extended_options: the known options start at the defaults, a
\* value that is no u16 makes the whole result Err, unknown names are put aside
filter_extended_options(opts) ==
    IF \/ opts.blksize # NotCarried /\ ~ParsesU16(opts.blksize)
       \/ opts.windowsize # NotCarried /\ ~ParsesU16(opts.windowsize)
    THEN [ok |-> FALSE, known |-> ExtendedOptions_new]
    ELSE [ok |-> TRUE,
          known |-> [blksize |-> IF opts.blksize # NotCarried THEN opts.blksize
                                 ELSE ExtendedOptions_new.blksize,
                     windowsize |-> IF opts.windowsize # NotCarried THEN opts.windowsize
                                    ELSE ExtendedOptions_new.windowsize]]

(***************************************************************************)
(* Server: a session (Connection).                                         *)
(***************************************************************************)
Sess == 1..NSess

IdleSession ==
    [pc |-> "idle", op |-> "none", fname |-> [abs |-> FALSE, comps |-> <<>>],
     path |-> NoPath, blocksize |-> DEFAULT_BLOCKSIZE,
     windowsize |-> DEFAULT_WINDOWSIZE, locked |-> NoPath, acq |-> "none",
     unlocked |-> FALSE, opened |-> FALSE, created |-> FALSE,
     blocknr |-> 0, pos |-> 0, frames |-> <<>>, cps |-> 0, retry |-> 0,
     sent |-> <<>>, result |-> "none", opts |-> NoOpts]

\* no function of the protocol module is called on its own
NoCall == [fn |-> "none"]

\* the engines or the server alone: no client program
NoClient == [pc |-> "off"]

\* a transfer between the two engines alone: no server, no session
NoServer ==
    /\ write_mode = "Disabled"
    /\ lockmap = <<>>
    /\ fs = <<>>
    /\ sess = <<>>

Exited(c) == c.pc \in {"done", "panicked"}

\* parsed_request: when the options filter, the known values become the
\* session's settings as they are; otherwise the settings stay
parsed_request(c, op, fname, opts) ==
    LET f == filter_extended_options(opts) IN
    [c EXCEPT !.op = op, !.fname = fname, !.opts = opts,
              !.blocksize = IF f.ok THEN f.known.blksize ELSE @,
              !.windowsize = IF f.ok THEN f.known.windowsize ELSE @]

\* handle_extendes_request: OACK with the settings that differ from the
\* defaults (blk: the blksize echoed, len: the windowsize echoed)
handle_extendes_request(c) ==
    IF c.blocksize # DEFAULT_BLOCKSIZE \/ c.windowsize # DEFAULT_WINDOWSIZE
    THEN [c EXCEPT !.sent = Append(@, Pkt("OACK",
              IF c.blocksize # DEFAULT_BLOCKSIZE THEN c.blocksize ELSE NotCarried,
              IF c.windowsize # DEFAULT_WINDOWSIZE THEN c.windowsize ELSE NotCarried,
              ""))]
    ELSE c

\* the end of run: the error reply, then the cleanup of the lock
RunExit(c, err) ==
    LET c1 == IF err # ErrNone
              THEN [c EXCEPT !.sent = Append(@, ErrorPkt(err.number, err.msg)),
                             !.result = "err"]
              ELSE [c EXCEPT !.result = "ok"]
    IN [c1 EXCEPT !.pc = "done", !.unlocked = (c.locked # NoPath)]

\* the cleanup of run unlocking the path of the request whether or not the
\* session has set self.locked
LockAfterExit_unlocks_request_path(lockset, c) ==
    IF c.path \in DOMAIN lockset THEN unlock_file(lockset, c.path) ELSE lockset

LockAfterExit(lockset, c) ==
    IF c.locked # NoPath THEN unlock_file(lockset, c.locked) ELSE lockset

Finish(s, c, err) ==
    /\ sess' = [sess EXCEPT ![s] = RunExit(c, err)]
    /\ lockmap' = LockAfterExit(lockmap, c)

(***************************************************************************)
(* Spec: one transfer between a SendStateMachine and a RecvController with *)
(* the same blksize and windowsize over a channel that loses, duplicates   *)
(* and reorders datagrams.                                                 *)
(***************************************************************************)
InitXfer(lens, blks, wins, nfaults) ==
    /\ build \in {"debug", "release"}
    /\ srcLen \in lens
    /\ \E b \in blks, w \in wins :
         /\ snd = SendStateMachine_new(b, w)
         /\ rcv = RecvController_new(w, b)
    /\ s_pc = "next"
    /\ s_out = <<>>
    /\ r_pc = "recv"
    /\ r_ev = NoEvent
    /\ d2r = {}
    /\ a2s = {}
    /\ sinkLen = 0
    /\ sinkOk = TRUE
    /\ faults = nfaults
    /\ cli = NoClient
    /\ call = NoCall
    /\ NoServer

Init == InitXfer(0..MaxLen, 1..MaxBlk, 1..MaxWin, MaxFaults)

Next ==
    \/ \E elapsed \in BOOLEAN : SenderNext(elapsed)
    \/ \E pkt \in a2s : SenderRecv(pkt)
    \/ \E pkt \in a2s : SenderRecvDup(pkt)
    \/ SenderRecvTimeout
    \/ \E pkt \in d2r : ReceiverRecv(pkt)
    \/ \E pkt \in d2r : ReceiverRecvDup(pkt)
    \/ ReceiverRecvTimeout
    \/ \E pkt \in d2r : LoseData(pkt)
    \/ \E pkt \in a2s : LoseAck(pkt)

Spec == Init /\ [][Next]_vars

(***************************************************************************)
(* SpecLong: a transfer of more than 256 blocks (blksize 1, windowsize 1)  *)
(* over a channel that neither loses nor delays, and duplicates one DATA   *)
(* datagram, delivering the copy later.                                    *)
(***************************************************************************)
InitLong == InitXfer({LongLen}, {1}, {1}, 1)

NextLong ==
    \/ SenderNext(FALSE)
    \/ \E pkt \in a2s : SenderRecv(pkt)
    \/ \E pkt \in d2r : ReceiverRecv(pkt)
    \/ \E pkt \in d2r : ReceiverRecvDup(pkt)

SpecLong == InitLong /\ [][NextLong]_vars

(***************************************************************************)
(* SpecWrap: a transfer of more than 65535 blocks (blksize 1, windowsize   *)
(* 1) over a channel that delivers every datagram once and in order.       *)
(***************************************************************************)
InitWrap == InitXfer({WrapLen}, {1}, {1}, 0)

NextWrap ==
    \/ SenderNext(FALSE)
    \/ \E pkt \in a2s : SenderRecv(pkt)
    \/ \E pkt \in d2r : ReceiverRecv(pkt)

SpecWrap == InitWrap /\ [][NextWrap]_vars

(***************************************************************************)
(* SpecDrop: a transfer of several windows (blksize 1, windowsize up to    *)
(* DropWin) over a channel that delivers in time and loses one DATA        *)
(* datagram.  A timer expires only when no datagram is on its way          *)
(* (RESEND_TIMEOUT and SEND_RECV_BLOCK_TIMEOUT exceed the delivery time),  *)
(* and RECV_TIMEOUT, longer than RESEND_TIMEOUT, does not expire before    *)
(* the sender has resent.                                                  *)
(***************************************************************************)
InitDrop == InitXfer({DropLen}, {1}, 1..DropWin, 1)

QuietSenderNext(elapsed) ==
    /\ elapsed => ~InFlight
    /\ SenderNext(elapsed)

QuietSenderRecvTimeout ==
    /\ ~InFlight
    /\ SenderRecvTimeout

NextDrop ==
    \/ \E elapsed \in BOOLEAN : QuietSenderNext(elapsed)
    \/ \E pkt \in a2s : SenderRecv(pkt)
    \/ QuietSenderRecvTimeout
    \/ \E pkt \in d2r : ReceiverRecv(pkt)
    \/ \E pkt \in d2r : LoseData(pkt)

SpecDrop == InitDrop /\ [][NextDrop]_vars

(***************************************************************************)
(* SpecError: a download in which the sending peer gives up at some point  *)
(* and sends an ERROR packet; the channel delivers in time and loses       *)
(* nothing.                                                                *)
(***************************************************************************)
ErrorDatagram == [op |-> "ERROR", blk |-> NotDefined, data |-> <<>>]

\* the peer stops and sends ERROR
PeerError ==
    /\ s_pc \in {"next", "recv"}
    /\ s_pc' = "aborted"
    /\ d2r' = d2r \cup {ErrorDatagram}
    /\ UNCHANGED <<snd, s_out, a2s>>
    /\ recv_unch /\ chan_unch /\ conf_unch /\ cli_unch

InitError == InitXfer(0..MaxLen, 1..MaxBlk, 1..MaxWin, 0)

NextError ==
    \/ \E elapsed \in BOOLEAN : QuietSenderNext(elapsed)
    \/ \E pkt \in a2s : SenderRecv(pkt)
    \/ QuietSenderRecvTimeout
    \/ \E pkt \in d2r : ReceiverRecv(pkt)
    \/ ReceiverRecvTimeout
    \/ PeerError

SpecError == InitError /\ [][NextError]_vars

(***************************************************************************)
(* An upload whose peer gives up: the receiving side stops at some point   *)
(* and sends ERROR to the sender.                                          *)
(***************************************************************************)
PeerAbort ==
    /\ r_pc = "recv"
    /\ r_pc' = "aborted"
    /\ a2s' = a2s \cup {ErrorDatagram}
    /\ UNCHANGED <<rcv, r_ev, sinkLen, sinkOk, d2r>>
    /\ send_unch /\ chan_unch /\ conf_unch /\ cli_unch

InitAbort == InitXfer(0..MaxLen, 1..MaxBlk, 1..MaxWin, 1)

NextAbort ==
    \/ \E elapsed \in BOOLEAN : SenderNext(elapsed)
    \/ \E pkt \in a2s : SenderRecv(pkt)
    \/ SenderRecvTimeout
    \/ \E pkt \in d2r : ReceiverRecv(pkt)
    \/ PeerAbort

SpecAbort == InitAbort /\ [][NextAbort]_vars

(***************************************************************************)
(* Server: Connection::run, cut at the points where the session waits for  *)
(* the peer or touches the lock table or the file system.                  *)
(***************************************************************************)
eng_unch == UNCHANGED evars

\* the window of read: file.read into filebuf[0..blocksize*windowsize], where
\* filebuf holds blocksize bytes, so the slice panics for a larger window
ReadPanics(c) ==
    c.windowsize >= 1 /\ c.blocksize * c.windowsize > c.blocksize

\* the frames of the next window and their sending; the session then waits
\* in wait_ack
ReadSend(c, flen) ==
    IF ReadPanics(c) THEN [c EXCEPT !.pc = "panicked"]
    ELSE LET wanted == c.blocksize * c.windowsize
             payload_len == IF c.windowsize = 0 THEN 0 ELSE Min(wanted, flen - c.pos)
             frames == IF payload_len = 0 THEN <<>>
                       ELSE <<Pkt("DATA", c.blocknr, payload_len, "")>>
         IN [c EXCEPT !.pc = "wait_ack", !.frames = frames, !.cps = payload_len,
                      !.pos = @ + payload_len, !.retry = 0, !.sent = @ \o frames]

\* run up to the lock: parsed_request, handle_extendes_request and the checks
\* of read / write that precede check_lock_file
Begin(s, op, fname, opts) ==
    /\ sess[s].pc = "idle"
    /\ IF s = 1 THEN TRUE ELSE sess[s - 1].pc # "idle"
    /\ LET c == handle_extendes_request(parsed_request(sess[s], op, fname, opts))
           full_path == get_file_path(fname)
           is_file == fs[Resolve(full_path)] # Absent
       IN IF op = "Write" /\ write_mode = "Disabled"
          THEN Finish(s, c, ErrNumber(AccessViolation))
          ELSE IF full_path = NoPath
          THEN Finish(s, c, ErrNumber(FileNotFound))
          ELSE IF op = "Write" /\ is_file /\ write_mode # "WriteOverwrite"
          THEN Finish(s, [c EXCEPT !.path = full_path], ErrNumber(FileAlreadyExists))
          ELSE /\ sess' = [sess EXCEPT ![s] = [c EXCEPT !.path = full_path, !.pc = "lock"]]
               /\ UNCHANGED lockmap
    /\ UNCHANGED <<write_mode, fs>>
    /\ eng_unch

\* check_lock_file in read / write
Lock(s) ==
    /\ sess[s].pc = "lock"
    /\ LET c == sess[s]
           mode == IF c.op = "Read" THEN LockRead(1) ELSE LockWrite
           r == check_lock_file(lockmap, c.path, mode)
       IN IF ~r.ret
          THEN Finish(s, [c EXCEPT !.acq = "refused"], ErrCustom("file is locked"))
          ELSE /\ lockmap' = r.lockset
               /\ sess' = [sess EXCEPT ![s] =
                     [c EXCEPT !.pc = "open",
                               !.locked = IF r.locked THEN c.path ELSE @,
                               !.acq = IF r.locked THEN "incremented" ELSE "inserted"]]
    /\ UNCHANGED <<write_mode, fs>>
    /\ eng_unch

\* File::open of read, then the first window; File::create of write, then ACK(0)
Open(s) ==
    /\ sess[s].pc = "open"
    /\ LET c == [sess[s] EXCEPT !.opened = TRUE]
           loc == Resolve(c.path)
       IN IF c.op = "Read"
          THEN /\ IF fs[loc] = Absent
                  THEN Finish(s, c, ErrNumber(NotDefined))
                  ELSE /\ sess' = [sess EXCEPT ![s] =
                                     ReadSend([c EXCEPT !.blocknr = 1], fs[loc])]
                       /\ UNCHANGED lockmap
               /\ UNCHANGED fs
          ELSE /\ fs' = [fs EXCEPT ![loc] = 0]
               /\ sess' = [sess EXCEPT ![s] =
                     [c EXCEPT !.created = TRUE, !.pc = "wait_data", !.blocknr = 1,
                               !.sent = Append(@, Pkt("ACK", 0, 0, ""))]]
               /\ UNCHANGED lockmap
    /\ UNCHANGED write_mode
    /\ eng_unch

\* wait_ack returned Ok: ACK(blocknr) arrived; the peer acknowledges a block
\* it was sent
AckArrives(s) ==
    /\ sess[s].pc = "wait_ack"
    /\ sess[s].frames # <<>>
    /\ LET c == sess[s] IN
       IF c.cps < c.blocksize * c.windowsize
       THEN Finish(s, c, ErrNone)
       ELSE /\ sess' = [sess EXCEPT ![s] =
                  ReadSend([c EXCEPT !.blocknr = AddU16(@, Len(c.frames))],
                           fs[Resolve(c.path)])]
            /\ UNCHANGED lockmap
    /\ UNCHANGED <<write_mode, fs>>
    /\ eng_unch

\* wait_ack returned Err: other datagrams arrived until RECV_TIMEOUT passed
AckTimeout(s) ==
    /\ sess[s].pc = "wait_ack"
    /\ LET c == sess[s] IN
       IF c.retry + 1 < RETRY_COUNT
       THEN /\ sess' = [sess EXCEPT ![s] =
                  [c EXCEPT !.retry = @ + 1, !.sent = @ \o c.frames]]
            /\ UNCHANGED lockmap
       ELSE Finish(s, c, ErrCustom("max resend"))
    /\ UNCHANGED <<write_mode, fs>>
    /\ eng_unch

\* recv_timeout(..).unwrap() in wait_ack / wait_data: no datagram arrived,
\* the session's thread panics
PeerSilent(s) ==
    /\ sess[s].pc \in {"wait_ack", "wait_data"}
    /\ sess' = [sess EXCEPT ![s].pc = "panicked"]
    /\ UNCHANGED <<write_mode, fs, lockmap>>
    /\ eng_unch

\* wait_data returned Ok: DATA(block_num) with len payload bytes arrived
DataArrives(s, len) ==
    /\ sess[s].pc = "wait_data"
    /\ len <= sess[s].blocksize
    /\ len = sess[s].blocksize => sess[s].blocknr < MaxUpBlocks
    /\ LET c == [sess[s] EXCEPT !.sent = Append(@, Pkt("ACK", sess[s].blocknr, 0, ""))]
           loc == Resolve(c.path)
       IN /\ fs' = [fs EXCEPT ![loc] = @ + len]
          /\ IF len < c.blocksize
             THEN Finish(s, c, ErrNone)
             ELSE /\ sess' = [sess EXCEPT ![s] = [c EXCEPT !.blocknr = AddU16(@, 1)]]
                  /\ UNCHANGED lockmap
    /\ UNCHANGED write_mode
    /\ eng_unch

\* wait_data returned Err: other datagrams arrived until RECV_TIMEOUT passed
DataTimeout(s) ==
    /\ sess[s].pc = "wait_data"
    /\ Finish(s, sess[s], ErrCustom("timeout wait DATA"))
    /\ UNCHANGED <<write_mode, fs>>
    /\ eng_unch

(***************************************************************************)
(* SpecServer: NSess concurrent sessions of one server.                    *)
(***************************************************************************)
FileLens == {100, 512}
UpLens == {100, 512}

InitSessions(lens, outside) ==
    /\ build = "release"
    /\ srcLen = 0
    /\ snd = SendStateMachine_new(1, 1)
    /\ rcv = RecvController_new(1, 1)
    /\ s_pc = "next"
    /\ s_out = <<>>
    /\ r_pc = "recv"
    /\ r_ev = NoEvent
    /\ d2r = {}
    /\ a2s = {}
    /\ sinkLen = 0
    /\ sinkOk = TRUE
    /\ faults = 0
    /\ cli = NoClient
    /\ call = NoCall
    /\ write_mode \in {"Disabled", "WriteNew", "WriteOverwrite"}
    /\ lockmap = [p \in PathKeys |-> Unlocked]
    /\ \E len \in lens :
         fs = [l \in Locations |->
                 IF l = <<"srv", "a">> THEN len
                 ELSE IF l = <<"x">> THEN outside ELSE Absent]
    /\ sess = [s \in Sess |-> IdleSession]

InitServer == InitSessions(FileLens, 100)

NextServer ==
    \/ \E s \in Sess, op \in {"Read", "Write"}, f \in FileNames :
         Begin(s, op, f, NoOpts)
    \/ \E s \in Sess : Lock(s)
    \/ \E s \in Sess : Open(s)
    \/ \E s \in Sess : AckArrives(s)
    \/ \E s \in Sess : AckTimeout(s)
    \/ \E s \in Sess : PeerSilent(s)
    \/ \E s \in Sess, len \in UpLens : DataArrives(s, len)
    \/ \E s \in Sess : DataTimeout(s)

SpecServer == InitServer /\ [][NextServer]_vars

(***************************************************************************)
(* SpecOpts: one session of the server whose request carries options.      *)
(***************************************************************************)
OptBlk == {NotCarried, 4, DEFAULT_BLOCKSIZE, MAX_BLOCKSIZE, 2048, 70000}
OptWin == {NotCarried, 1, 2}
OptFileLens == {6, 10}
OptUpLens == {0, 4, 100, MAX_BLOCKSIZE, 2048}

InitOpts == InitSessions(OptFileLens, 6)

NextOpts ==
    \/ \E op \in {"Read", "Write"}, f \in FileNames,
          b \in OptBlk, w \in OptWin, o \in BOOLEAN :
         Begin(1, op, f, [blksize |-> b, windowsize |-> w, other |-> o])
    \/ Lock(1)
    \/ Open(1)
    \/ AckArrives(1)
    \/ AckTimeout(1)
    \/ PeerSilent(1)
    \/ \E len \in OptUpLens : DataArrives(1, len)
    \/ DataTimeout(1)

SpecOpts == InitOpts /\ [][NextOpts]_vars

(***************************************************************************)
(* The client program (client_main) against session 1 of the server.  The  *)
(* client reads the session's datagrams in the order they were sent; the   *)
(* session takes the client's DATA from d2r and the client's ACKs from     *)
(* a2s.  No datagram is lost, and a timer expires only when no party can   *)
(* take a step without one.                                                *)
(***************************************************************************)
Request(op) == [op |-> IF op = "Read" THEN "RRQ" ELSE "WRQ", blk |-> 0, data |-> <<>>]

\* ClientArguments::new and SocketSendRecv::new
ClientStart ==
    [pc |-> "start", op |-> "none", fname |-> [abs |-> FALSE, comps |-> <<>>],
     blksize |-> DEFAULT_BLOCKSIZE, windowsize |-> DEFAULT_WINDOWSIZE,
     rd |-> 0, defer |-> FALSE, read_buf |-> NoPkt, oack |-> FALSE, sent |-> <<>>,
     local |-> Absent, local0 |-> Absent]

\* the options send_initial_packet puts into the request
RequestOpts(c) ==
    [blksize |-> IF c.blksize # DEFAULT_BLOCKSIZE THEN c.blksize ELSE NotCarried,
     windowsize |-> IF c.windowsize # DEFAULT_WINDOWSIZE THEN c.windowsize ELSE NotCarried,
     other |-> FALSE]

\* the datagram of the session as the client's engines see it; block blk of
\* a file read in blocks of the session's block size starts at
\* (blk - 1) * blocksize
recv_buf(p) ==
    IF p.op = "DATA"
    THEN Data(p.blk, SrcBytes((p.blk - 1) * sess[1].blocksize, p.len))
    ELSE [op |-> p.op, blk |-> p.blk, data |-> <<>>]

\* the frames the client sends, each with the number of datagrams of the
\* session the client had read before
Stamp(frames, seen) == [i \in 1..Len(frames) |-> [pkt |-> frames[i], seen |-> seen]]

Unread == cli.rd < Len(sess[1].sent)

\* the session waits for a datagram that is not there, or has ended
SessionBlocked ==
    \/ sess[1].pc \in {"done", "panicked"}
    \/ sess[1].pc = "wait_data" /\ ~\E pkt \in d2r : pkt.blk = sess[1].blocknr
    \/ sess[1].pc = "wait_ack"
         /\ ~(sess[1].frames # <<>> /\ Ack(sess[1].blocknr) \in a2s)

Quiet == SessionBlocked /\ ~Unread /\ ~cli.defer

\* the client waits in recv_next for a datagram that is not there, or has ended
ClientBlocked ==
    /\ ~Unread /\ ~cli.defer
    /\ \/ cli.pc = "first"
       \/ cli.pc = "upload" /\ s_pc # "next"
       \/ cli.pc = "download"

\* send_initial_packet up to recv_next: the request with the options that
\* differ from the defaults
CliRequest(op, fname, b, w) ==
    /\ cli.pc = "start"
    /\ cli' = [cli EXCEPT !.pc = "first", !.op = op, !.fname = fname,
                          !.blksize = b, !.windowsize = w,
                          !.sent = <<[pkt |-> Request(op), seen |-> 0]>>]
    /\ UNCHANGED <<build, srcLen, snd, s_pc, s_out, rcv, r_pc, r_ev, d2r, a2s,
                   sinkLen, sinkOk, faults, svars, call>>

\* client_main after send_initial_packet: File::open of the local file and
\* upload_action, or File::create of the local file (local: its length, local0:
\* its length when the client started) and download_action; the action
\* constructs its engine from the arguments
CliEnter(c) ==
    /\ IF c.op = "Write"
       THEN /\ cli' = [c EXCEPT !.pc = "upload"]
            /\ snd' = SendStateMachine_new(c.blksize, c.windowsize)
            /\ s_pc' = "next"
            /\ UNCHANGED <<rcv, r_pc>>
       ELSE /\ cli' = [c EXCEPT !.pc = "download", !.local = 0]
            /\ rcv' = RecvController_new(c.windowsize, c.blksize)
            /\ r_pc' = "recv"
            /\ UNCHANGED <<snd, s_pc>>
    /\ UNCHANGED <<build, srcLen, s_out, r_ev, d2r, a2s, sinkLen, sinkOk,
                   faults, svars, call>>

\* send_initial_packet: recv_next delivered the first datagram; an OACK sets
\* the arguments from the options it carries, another datagram is deferred
CliFirstRecv ==
    /\ cli.pc = "first"
    /\ Unread
    /\ LET p == sess[1].sent[cli.rd + 1]
           c == [cli EXCEPT !.rd = @ + 1, !.read_buf = p]
           f == filter_extended_options(
                   [blksize |-> p.blk, windowsize |-> p.len, other |-> FALSE])
       IN IF p.op = "OACK"
          THEN CliEnter([c EXCEPT !.oack = TRUE,
                                  !.blksize = IF f.ok THEN f.known.blksize ELSE @,
                                  !.windowsize = IF f.ok THEN f.known.windowsize ELSE @])
          ELSE CliEnter([c EXCEPT !.defer = TRUE])

\* send_initial_packet: recv_next returned false
CliFirstTimeout ==
    /\ cli.pc = "first"
    /\ Quiet
    /\ CliEnter(cli)

\* upload_action: window_buffer.next() and the sending of its frames; the
\* session answers every window, so RESEND_TIMEOUT never passes
CliUploadNext ==
    /\ cli.pc = "upload"
    /\ SenderNextStep(FALSE)
    /\ LET n == next(snd, FALSE) IN
       cli' = IF n.action = "SendBuffer"
              THEN [cli EXCEPT !.sent = @ \o Stamp(n.st.bufs, cli.rd)]
              ELSE cli

\* upload_action: recv_next delivered the deferred or the next datagram
CliUploadRecv ==
    /\ cli.pc = "upload"
    /\ s_pc = "recv"
    /\ IF cli.defer
       THEN /\ SenderHandle(recv_buf(cli.read_buf))
            /\ cli' = [cli EXCEPT !.defer = FALSE]
       ELSE /\ Unread
            /\ SenderHandle(recv_buf(sess[1].sent[cli.rd + 1]))
            /\ cli' = [cli EXCEPT !.rd = @ + 1, !.read_buf = sess[1].sent[cli.rd + 1]]
    /\ UNCHANGED <<a2s, faults>>

\* the ACK an iteration of fill_window sends
AckSent(r, pkt) ==
    LET k == AckOf(r, pkt) IN
    IF k = "flush"
    THEN <<Ack(write_window([r EXCEPT !.window_buf[SlotOf(r, pkt)] = pkt.data]).acked)>>
    ELSE IF k = "resend" THEN <<Ack(r.acked)>> ELSE <<>>

\* recv_next leaving the defer flag set: the deferred datagram is delivered
\* again by every later call
CliDownloadRecv_keeps_defer ==
    /\ cli.pc = "download"
    /\ r_pc = "recv"
    /\ IF cli.defer
       THEN /\ ReceiverHandle(recv_buf(cli.read_buf))
            /\ cli' = [cli EXCEPT
                          !.sent = @ \o Stamp(AckSent(rcv, recv_buf(cli.read_buf)), cli.rd)]
       ELSE /\ Unread
            /\ LET p == sess[1].sent[cli.rd + 1] IN
               /\ ReceiverHandle(recv_buf(p))
               /\ cli' = [cli EXCEPT !.rd = @ + 1, !.read_buf = p,
                             !.sent = @ \o Stamp(AckSent(rcv, recv_buf(p)), cli.rd + 1)]
    /\ UNCHANGED <<d2r, faults>>

\* download_action: the Recv callback delivered the deferred or the next
\* datagram
CliDownloadRecv ==
    /\ cli.pc = "download"
    /\ r_pc = "recv"
    /\ IF cli.defer
       THEN /\ ReceiverHandle(recv_buf(cli.read_buf))
            /\ cli' = [cli EXCEPT !.defer = FALSE,
                          !.sent = @ \o Stamp(AckSent(rcv, recv_buf(cli.read_buf)), cli.rd)]
       ELSE /\ Unread
            /\ LET p == sess[1].sent[cli.rd + 1] IN
               /\ ReceiverHandle(recv_buf(p))
               /\ cli' = [cli EXCEPT !.rd = @ + 1, !.read_buf = p,
                             !.sent = @ \o Stamp(AckSent(rcv, recv_buf(p)), cli.rd + 1)]
    /\ UNCHANGED <<d2r, faults>>

\* download_action: the Recv callback left the buffer empty
CliDownloadRecvTimeout ==
    /\ cli.pc = "download"
    /\ r_pc = "recv"
    /\ Quiet
    /\ ReceiverHandle(NoPkt)
    /\ cli' = [cli EXCEPT !.sent = @ \o Stamp(AckSent(rcv, NoPkt), cli.rd)]
    /\ UNCHANGED <<d2r, faults>>

\* Connection::run receives the request
SrvRequest ==
    /\ cli.pc # "start"
    /\ Begin(1, cli.op, cli.fname, RequestOpts(cli))

\* wait_data receives the DATA frame it waits for
SrvData ==
    \E pkt \in d2r :
        /\ pkt.blk = sess[1].blocknr
        /\ DataArrives(1, Len(pkt.data))

\* wait_ack receives the ACK it waits for
SrvAck ==
    /\ Ack(sess[1].blocknr) \in a2s
    /\ AckArrives(1)

\* recv_timeout(..).unwrap(): the client sends nothing more
SrvPeerSilent ==
    /\ SessionBlocked
    /\ ClientBlocked
    /\ PeerSilent(1)

ClientLens == {0, 3, 4}
ClientBlk == {4, DEFAULT_BLOCKSIZE, 70000}
ClientWin == {DEFAULT_WINDOWSIZE, 2}
ClientNames == {[abs |-> FALSE, comps |-> <<"a">>], [abs |-> FALSE, comps |-> <<"b">>]}

\* the local file of the client: missing, or an older copy
LocalLens == {Absent, 5}

InitClient ==
    /\ build \in {"debug", "release"}
    /\ srcLen \in ClientLens
    /\ snd = SendStateMachine_new(1, 1)
    /\ rcv = RecvController_new(1, 1)
    /\ s_pc = "off"
    /\ s_out = <<>>
    /\ r_pc = "off"
    /\ r_ev = NoEvent
    /\ d2r = {}
    /\ a2s = {}
    /\ sinkLen = 0
    /\ sinkOk = TRUE
    /\ faults = 0
    /\ cli \in {[ClientStart EXCEPT !.local = l, !.local0 = l] : l \in LocalLens}
    /\ call = NoCall
    /\ write_mode \in {"Disabled", "WriteNew", "WriteOverwrite"}
    /\ lockmap = [p \in PathKeys |-> Unlocked]
    /\ fs = [l \in Locations |-> IF l = <<"srv", "a">> THEN srcLen ELSE Absent]
    /\ sess = [s \in Sess |-> IdleSession]

NextClient ==
    \/ \E op \in {"Read", "Write"}, f \in ClientNames, b \in ClientBlk, w \in ClientWin :
         CliRequest(op, f, b, w)
    \/ CliFirstRecv
    \/ CliFirstTimeout
    \/ CliUploadNext
    \/ CliUploadRecv
    \/ CliDownloadRecv
    \/ CliDownloadRecvTimeout
    \/ SrvRequest
    \/ Lock(1)
    \/ Open(1)
    \/ SrvData
    \/ SrvAck
    \/ SrvPeerSilent

SpecClient == InitClient /\ [][NextClient]_vars

(***************************************************************************)
(* SpecCalls: the functions of the protocol module, each called on its own *)
(* with arguments drawn from the sets below; one call per behaviour.       *)
(***************************************************************************)
\* block numbers around 0, the u8 boundary and the u16 boundary
BlockNumbers == {0, 1, 2, 3, U8_MAX, U8_MAX + 1, U8_MAX + 2, 300, U16 - 2, U16 - 1}

InitCalls ==
    /\ build \in {"debug", "release"}
    /\ srcLen = 0
    /\ snd = SendStateMachine_new(1, 1)
    /\ rcv = RecvController_new(1, 1)
    /\ s_pc = "off"
    /\ s_out = <<>>
    /\ r_pc = "off"
    /\ r_ev = NoEvent
    /\ d2r = {}
    /\ a2s = {}
    /\ sinkLen = 0
    /\ sinkOk = TRUE
    /\ faults = 0
    /\ cli = NoClient
    /\ call = NoCall
    /\ NoServer

calls_unch ==
    UNCHANGED <<build, srcLen, snd, s_pc, s_out, rcv, r_pc, r_ev, d2r, a2s,
                sinkLen, sinkOk, faults, cli, svars>>

\* ring_diff(a, b); an underflow of the subtraction aborts a debug build and
\* wraps to a value above 65535 in a release build
CallRingDiff(a, b) ==
    /\ call = NoCall
    /\ call' = [fn |-> "ring_diff", a |-> a, b |-> b,
                panic |-> (ring_diff(a, b) = Underflow /\ build = "debug"),
                ret |-> ring_diff(a, b)]
    /\ calls_unch

(***************************************************************************)
(* The wire codec.  A datagram is a sequence of bytes (0..255), a string   *)
(* the sequence of its bytes.                                              *)
(***************************************************************************)
BLKSIZE_STR == <<98, 108, 107, 115, 105, 122, 101>>
WINDOW_STR == <<119, 105, 110, 100, 111, 119, 115, 105, 122, 101>>

TransferMode_to_string(mode) ==
    CASE mode = "Netascii" -> <<110, 101, 116, 97, 115, 99, 105, 105>>
      [] mode = "Octet" -> <<111, 99, 116, 101, 116>>
      [] mode = "Mail" -> <<109, 97, 105, 108>>

TransferMode_from_str(str) ==
    IF str = TransferMode_to_string("Netascii") THEN "Netascii"
    ELSE IF str = TransferMode_to_string("Octet") THEN "Octet"
    ELSE IF str = TransferMode_to_string("Mail") THEN "Mail"
    ELSE "Err"

Opcode_as_u16(op) ==
    CASE op = "Read" -> 1 [] op = "Write" -> 2 [] op = "Data" -> 3
      [] op = "Ack" -> 4 [] op = "Error" -> 5 [] op = "Oack" -> 6

parse_opcode(raw) ==
    IF raw \in 1..6
    THEN CHOOSE op \in {"Read", "Write", "Data", "Ack", "Error", "Oack"} :
            Opcode_as_u16(op) = raw
    ELSE "None"

\* u16::to_le_bytes
to_le_bytes(num) == <<num % 256, num \div 256>>

\* u16::to_be_bytes
to_be_bytes(num) == <<num \div 256, num % 256>>

\* raw_to_num::<u16>: the first byte is shifted by 8, the second by 0
NoNum == -1
raw_to_num(data) ==
    IF Len(data) < 2 THEN NoNum ELSE data[1] * 256 + data[2]

\* usize::to_string
RECURSIVE to_string(_)
to_string(n) ==
    IF n < 10 THEN <<48 + n>> ELSE to_string(n \div 10) \o <<48 + (n % 10)>>

\* u16::from_str_radix(str, 10); NoNum for Err
RECURSIVE from_digits(_, _)
from_digits(str, acc) ==
    IF str = <<>> THEN acc
    ELSE IF Head(str) \notin 48..57 THEN NoNum
    ELSE LET v == acc * 10 + (Head(str) - 48) IN
         IF v >= U16 THEN NoNum ELSE from_digits(Tail(str), v)

from_str_radix(str) == IF str = <<>> THEN NoNum ELSE from_digits(str, 0)

\* PacketBuilder: the buffer after each call
PacketBuilder_new == <<>>
PB_opcode(buf, op) == buf \o to_be_bytes(Opcode_as_u16(op))
PB_str(buf, txt) == buf \o txt
PB_separator(buf) == Append(buf, 0)
PB_transfer_mode(buf, mode) == PB_str(buf, TransferMode_to_string(mode))
PB_number16(buf, num) == buf \o to_be_bytes(num)
PB_raw_data(buf, data) == buf \o data

\* send_ack of RecvController and Connection
build_ack(blk) == PB_number16(PB_opcode(PacketBuilder_new, "Ack"), blk)

\* impl_next of SendStateMachine, read of Connection
build_data(blk, payload) ==
    PB_raw_data(PB_number16(PB_opcode(PacketBuilder_new, "Data"), blk), payload)

\* send_initial_packet: the options that differ from the defaults, then the
\* closing separator
build_request(op, filename, mode, blksize, windowsize) ==
    LET p0 == PB_transfer_mode(
                 PB_separator(PB_str(PB_opcode(PacketBuilder_new, op), filename)), mode)
        p1 == IF blksize # DEFAULT_BLOCKSIZE
              THEN PB_str(PB_separator(PB_str(PB_separator(p0), BLKSIZE_STR)),
                          to_string(blksize))
              ELSE p0
        p2 == IF windowsize # DEFAULT_WINDOWSIZE
              THEN PB_str(PB_separator(PB_str(PB_separator(p1), WINDOW_STR)),
                          to_string(windowsize))
              ELSE p1
    IN PB_separator(p2)

\* send_error
build_error(number, msg) ==
    PB_separator(PB_str(PB_number16(PB_opcode(PacketBuilder_new, "Error"), number), msg))

\* PacketParser: buf and pos; every method yields the parser after the call
\* and the value returned
PacketParser_new(buf) == [buf |-> buf, pos |-> 0]
remaining_bytes(pp) == SubSeq(pp.buf, pp.pos + 1, Len(pp.buf))

PP_opcode(pp) ==
    LET raw == raw_to_num(remaining_bytes(pp))
        result == IF raw = NoNum THEN "None" ELSE parse_opcode(raw)
    IN [pp |-> IF result # "None" THEN [pp EXCEPT !.pos = @ + 2] ELSE pp,
        ret |-> result]

PP_number16(pp) ==
    LET num == raw_to_num(remaining_bytes(pp)) IN
    [pp |-> IF num # NoNum THEN [pp EXCEPT !.pos = @ + 2] ELSE pp, ret |-> num]

NoString == <<-1>>

\* the bytes before the first 0; NoString when there is no 0
PP_string_with_separator(pp) ==
    LET data == remaining_bytes(pp)
        zeros == {i \in 1..Len(data) : data[i] = 0}
    IN IF zeros = {} THEN [pp |-> pp, ret |-> NoString]
       ELSE LET z == CHOOSE i \in zeros : \A j \in zeros : i <= j IN
            [pp |-> [pp EXCEPT !.pos = @ + z], ret |-> SubSeq(data, 1, z - 1)]

\* slice::split(|x| x == &0): the fields between the zeros
RECURSIVE split(_, _, _)
split(data, cur, acc) ==
    IF data = <<>> THEN Append(acc, cur)
    ELSE IF Head(data) = 0 THEN split(Tail(data), <<>>, Append(acc, cur))
    ELSE split(Tail(data), Append(cur, Head(data)), acc)

\* HashMap::insert
HashMap_new == [k \in {} |-> <<>>]
HashMap_insert(m, k, v) == [x \in DOMAIN m \cup {k} |-> IF x = k THEN v ELSE m[x]]

\* the fields taken in pairs: key, value; a last field without a value is dropped
RECURSIVE pair_fields(_, _)
pair_fields(fields, ret) ==
    IF Len(fields) < 2 THEN ret
    ELSE pair_fields(SubSeq(fields, 3, Len(fields)),
                     HashMap_insert(ret, fields[1], fields[2]))

PP_extended_options(pp) ==
    [pp |-> pp, ret |-> pair_fields(split(remaining_bytes(pp), <<>>, <<>>), HashMap_new)]

\* parsed_request of Connection
parse_request(op, pp) ==
    LET f == PP_string_with_separator(pp)
        m == PP_string_with_separator(f.pp)
        mode == IF m.ret = NoString THEN "Err" ELSE TransferMode_from_str(m.ret)
    IN IF f.ret = NoString THEN [kind |-> "invalid filename"]
       ELSE IF mode = "Err" THEN [kind |-> "invalid mode"]
       ELSE [kind |-> op, filename |-> f.ret, mode |-> mode,
             options |-> PP_extended_options(m.pp).ret]

\* parse_error: the message is returned for NotDefined only
parse_error(pp) ==
    LET n == PP_number16(pp)
        str == PP_string_with_separator(n.pp)
    IN IF n.ret = NoNum \/ n.ret > 7 THEN [kind |-> "Error", number |-> NotDefined,
             msg |-> "response error with invalid error number"]
       ELSE [kind |-> "Error", number |-> n.ret,
             msg |-> IF n.ret = NotDefined
                     THEN (IF str.ret = NoString THEN <<>> ELSE str.ret)
                     ELSE "None"]

\* the parsing the receivers of a datagram do after its opcode
parse(bytes) ==
    LET o == PP_opcode(PacketParser_new(bytes)) IN
    CASE o.ret \in {"Read", "Write"} -> parse_request(o.ret, o.pp)
      [] o.ret = "Data" ->
            LET n == PP_number16(o.pp) IN
            IF n.ret = NoNum THEN [kind |-> "None"]
            ELSE [kind |-> "Data", blk |-> n.ret, payload |-> remaining_bytes(n.pp)]
      [] o.ret = "Ack" ->
            LET n == PP_number16(o.pp) IN
            IF n.ret = NoNum \/ Len(bytes) # ACK_LEN THEN [kind |-> "None"]
            ELSE [kind |-> "Ack", blk |-> n.ret]
      [] o.ret = "Error" -> parse_error(o.pp)
      [] OTHER -> [kind |-> "None"]

Payloads == {<<>>, <<0>>, <<0, 0>>, <<1, 0, 255>>, <<0, 3, 0, 4>>}
CodecFileNames == {<<97>>, <<100, 47, 97, 46, 98>>}
CodecBlk == {8, DEFAULT_BLOCKSIZE, MAX_BLOCKSIZE, U16 - 1, 70000}
CodecWin == {DEFAULT_WINDOWSIZE, 2, 10, U16 - 1}
CodecMsgs == {<<>>, <<117, 110, 107, 110, 111, 119, 110>>, <<120, 32, 121>>}

CallCodec(pkt, bytes) ==
    /\ call = NoCall
    /\ call' = [fn |-> "codec", pkt |-> pkt, bytes |-> bytes, parsed |-> parse(bytes)]
    /\ calls_unch

CallAck == \E blk \in BlockNumbers : CallCodec([kind |-> "Ack", blk |-> blk], build_ack(blk))

CallData ==
    \E blk \in BlockNumbers, payload \in Payloads :
        CallCodec([kind |-> "Data", blk |-> blk, payload |-> payload],
                  build_data(blk, payload))

CallRequest ==
    \E op \in {"Read", "Write"}, filename \in CodecFileNames,
       mode \in {"Netascii", "Octet", "Mail"}, b \in CodecBlk, w \in CodecWin :
        CallCodec([kind |-> op, filename |-> filename, mode |-> mode,
                   blksize |-> b, windowsize |-> w],
                  build_request(op, filename, mode, b, w))

CallError ==
    \E number \in 0..7, msg \in CodecMsgs :
        CallCodec([kind |-> "Error", number |-> number, msg |-> msg],
                  build_error(number, msg))

(***************************************************************************)
(* One step of an engine, called on a state the engine can be in.          *)
(***************************************************************************)
CallWindows == {1, 2, 300}
CallAcked == {0, 1, 2, 300, U16 - 1}

\* a RecvController that has acknowledged acked blocks and holds the
\* payloads of the slots in filled (full blocks of blksize 1)
RecvStates ==
    { [windowssize |-> w, blksize |-> 1, acked |-> a, i_retry |-> 0,
       window_buf |-> [i \in 1..w |-> IF i \in filled THEN <<7>> ELSE None]] :
         w \in CallWindows, a \in CallAcked, filled \in {{}, {1}, {2}} }

\* one iteration of fill_window on a DATA datagram: the decision and the
\* window after it
CallFillWindow(r, pkt) ==
    /\ call = NoCall
    /\ call' = [fn |-> "fill_window", r |-> r, pkt |-> pkt,
                admit |-> Admit(r, pkt),
                window_buf |-> IF Admit(r, pkt) = "store"
                               THEN [r.window_buf EXCEPT ![SlotOf(r, pkt)] = pkt.data]
                               ELSE r.window_buf]
    /\ calls_unch

\* the windows write_window can be called on: blksize 2, every slot empty,
\* an empty final block, a short block or a full block
SlotValues == {None, <<>>, <<7>>, <<7, 8>>}
FlushStates ==
    { [windowssize |-> w, blksize |-> 2, acked |-> a, i_retry |-> 0, window_buf |-> buf] :
         w \in 1..3, a \in {0, U16 - 2, U16 - 1},
         buf \in UNION {[1..n -> SlotValues] : n \in 1..3} }

\* write_window: whether it flushes, the bytes written, the engine after it,
\* the ACK sent and whether run returns
CallWriteWindow(r) ==
    /\ call = NoCall
    /\ Len(r.window_buf) = r.windowssize
    /\ \E i \in 1..r.windowssize : r.window_buf[i] # None
    /\ call' = [fn |-> "write_window", r |-> r,
                flush |-> Flushes(r),
                written |-> IF Flushes(r) THEN Concat(r.window_buf, is_complete(r).count)
                            ELSE <<>>,
                after |-> IF Flushes(r) THEN write_window(r) ELSE r,
                ack |-> IF Flushes(r) THEN <<Ack(write_window(r).acked)>> ELSE <<>>,
                ret |-> Flushes(r) /\ is_complete(r).is_last]
    /\ calls_unch

\* a SendStateMachine that has emitted its queue: n frames after acked, the
\* last one short when the reader has ended
SendStates ==
    { [windowssize |-> w, blksize |-> 1, acked |-> a, new_acked |-> FALSE,
       is_reader_end |-> e, is_end |-> FALSE, timeout |-> t, retry |-> k,
       data_read |-> 0, panic |-> FALSE,
       bufs |-> [i \in 1..n |-> Data(AddU16(a, i), IF e /\ i = n THEN <<>> ELSE <<7>>)]] :
         w \in {1, 2}, a \in {0, 5, U16 - 1}, e \in BOOLEAN,
         t \in {"running", "expired"}, k \in {1, RETRY_COUNT}, n \in 1..2 }

Datagrams ==
    {Ack(b) : b \in BlockNumbers \cup {5, 6, 7}} \cup {Data(1, <<7>>), ErrorDatagram}

\* ack_packet on a received datagram
CallAckPacket(st, pkt) ==
    /\ call = NoCall
    /\ Len(st.bufs) <= st.windowssize
    /\ Len(st.bufs) < st.windowssize => st.is_reader_end
    /\ call' = [fn |-> "ack_packet", s |-> st, pkt |-> pkt,
                after |-> ack_packet(st, pkt)]
    /\ calls_unch

NextCalls ==
    \/ \E a \in BlockNumbers, b \in BlockNumbers : CallRingDiff(a, b)
    \/ \E r \in RecvStates, blk \in BlockNumbers : CallFillWindow(r, Data(blk, <<9>>))
    \/ \E r \in FlushStates : CallWriteWindow(r)
    \/ \E st \in SendStates, pkt \in Datagrams : CallAckPacket(st, pkt)
    \/ CallAck
    \/ CallData
    \/ CallRequest
    \/ CallError

SpecCalls == InitCalls /\ [][NextCalls]_vars

(***************************************************************************)
(* Properties of the engines.                                              *)
(***************************************************************************)

\* C1: the bytes delivered to the sink are a prefix of the bytes read from
\* the source, and they are the whole source once run has returned Ok.
C1_SinkIsPrefixOfSource ==
    /\ sinkOk
    /\ sinkLen <= snd.data_read
    /\ r_pc = "ok" => sinkLen = srcLen

\* C8: with acked = 65535 the RECV engine stores DATA 0 (it neither rejects
\* it nor aborts), and the SEND engine with acked = 65535 and the frame 0 in
\* its queue advances on ACK(0).
C8_WrapContinues ==
    /\ (r_ev.kind \in {"store", "reject", "panic"} /\ r_ev.acked = U16 - 1 /\ r_ev.blk = 0)
          => r_ev.kind = "store"
    /\ (snd.acked = U16 - 1 /\ snd.bufs # <<>> /\ Ack(0) \in a2s)
          => ack(snd, 0).acked = 0

\* the source is k full blocks long
FullBlocks == srcLen \div snd.blksize
ExactMultiple == srcLen % snd.blksize = 0
FinalEmptyFrame == Data(AddU16(FullBlocks, 1), <<>>)

\* C9: for a source of k*blksize bytes the SEND engine enqueues k full frames
\* and then an empty frame numbered k+1, emits it, and reports End only when
\* that frame has been acknowledged.
C9_EmptyFinalFrame ==
    ExactMultiple =>
      /\ \A i \in 1..Len(snd.bufs) :
            /\ snd.bufs[i].blk = AddU16(snd.acked, i)
            /\ \/ snd.bufs[i] = FinalEmptyFrame
               \/ /\ Len(snd.bufs[i].data) = snd.blksize
                  /\ snd.bufs[i].blk # FinalEmptyFrame.blk
      /\ (snd.is_reader_end /\ ~snd.is_end) =>
            /\ snd.bufs # <<>>
            /\ snd.bufs[Len(snd.bufs)] = FinalEmptyFrame
      /\ (snd.is_reader_end /\ s_pc = "recv") => FinalEmptyFrame \in FramesOf(s_out)
      /\ (snd.is_end \/ s_pc = "end") =>
            /\ snd.acked = FinalEmptyFrame.blk
            /\ snd.data_read = srcLen
            /\ FinalEmptyFrame \in FramesOf(s_out)

\* a source of k >= 1 full blocks was sent and End reported
C9_Witness ==
    /\ ExactMultiple
    /\ FullBlocks >= 1
    /\ s_pc = "end"

\* C13: when one DATA frame of a transfer is dropped, whatever the window
\* size and the frame's position, the transfer does not fail: the receiver
\* does not give up, the sender does not time out, the sink receives no block
\* twice, and run returns Ok with the whole source delivered.
C13_SingleDropRecovers ==
    faults = 0 =>
      /\ r_pc \notin {"err", "panic"}
      /\ s_pc \notin {"timeout", "panic", "error"}
      /\ sinkOk
      /\ r_pc = "ok" => sinkLen = srcLen

\* C14: the RECV engine emits one ACK at each window flush; between flushes
\* it emits ACK(acked) only after a receive attempt that timed out, never
\* after a datagram it rejected.
C14_AckOnlyOnFlushOrTimeout ==
    /\ r_ev.kind = "store" => r_ev.ack \in {"flush", "none"}
    /\ r_ev.ack = "resend" => r_ev.kind = "timeout"
    /\ r_ev.kind = "reject" => r_ev.ack = "none"

\* C15: the queue of the SEND engine holds at most windowsize frames, the
\* frame at position i (from 0) carries block number (acked + i + 1) mod 2^16
\* and at most blksize bytes, and a SendBuffer emission is the queue: a
\* contiguous run of block numbers that starts at acked + 1.
C15_QueueIsContiguousRun ==
    /\ Len(snd.bufs) <= snd.windowssize
    /\ \A i \in 1..Len(snd.bufs) :
          /\ snd.bufs[i].op = "DATA"
          /\ snd.bufs[i].blk = AddU16(AddU16(snd.acked, i - 1), 1)
          /\ Len(snd.bufs[i].data) <= snd.blksize
    /\ s_pc = "recv" => s_out = snd.bufs

\* a full window of two frames was emitted after an acknowledgement
C15_Witness ==
    /\ snd.acked > 0
    /\ Len(snd.bufs) = 2
    /\ s_pc = "recv"
    /\ s_out = snd.bufs

\* C16: when the RECV engine has received an ERROR packet of the peer the
\* download ends there with the peer's error: that iteration emits no ACK and
\* the engine neither goes on receiving nor ends with a timeout.
C16_PeerErrorEndsDownload ==
    r_ev.op = "ERROR" =>
      /\ r_ev.ack = "none"
      /\ r_pc = "error"

(***************************************************************************)
(* Properties of the server's sessions.                                    *)
(***************************************************************************)
\* the session went through check_lock_file with success and is in its transfer
Holding(c) ==
    c.acq \in {"inserted", "incremented"} /\ c.pc \in {"open", "wait_ack", "wait_data"}

\* the session's last datagram is ERROR with this code
RepliedError(c, number) ==
    /\ c.pc = "done"
    /\ c.sent # <<>>
    /\ c.sent[Len(c.sent)].op = "ERROR"
    /\ c.sent[Len(c.sent)].blk = number

FileIsLocked == ErrorPkt(NotDefined, "file is locked")

\* the location a request's file name denotes, and whether it lies outside root_dir
Target(fname) == Resolve(PathJoin(root_dir, fname))
Outside(fname) == ~PathStartsWith(Target(fname), root_dir)

\* C2: once every session has exited run, the lock table has no entry.
C2_LockTableEmptyAfterExit ==
    (\A s \in Sess : sess[s].pc \in {"idle", "done"})
       => \A p \in PathKeys : lockmap[p] = Unlocked

\* C3: while a session that acquired a path in Write mode is in its transfer,
\* no other session has acquired the same path.
C3_WriteLockExclusive ==
    \A s \in Sess, t \in Sess :
       (s # t /\ sess[s].op = "Write" /\ Holding(sess[s]) /\ Holding(sess[t]))
          => sess[s].path # sess[t].path

\* a writer is receiving data and another session was refused the same path
C3_Witness ==
    \E s \in Sess, t \in Sess :
       /\ s # t
       /\ sess[s].op = "Write" /\ Holding(sess[s]) /\ sess[s].pc = "wait_data"
       /\ sess[t].path = sess[s].path
       /\ sess[t].acq = "refused"

\* C4: an RRQ session is refused the lock only while a WRQ session that
\* acquired the path has not left run; on an entry Read(n) it acquires and the
\* entry becomes Read(n+1).
C4_ReadersAllAcquire ==
    [][\A t \in Sess :
         (sess[t].pc = "lock" /\ sess[t].op = "Read" /\ sess'[t].pc # "lock") =>
            /\ sess'[t].acq = "refused" =>
                  \E s \in Sess \ {t} :
                     /\ sess[s].op = "Write"
                     /\ sess[s].path = sess[t].path
                     /\ sess[s].acq = "inserted"
                     /\ sess[s].pc # "done"
            /\ lockmap[sess[t].path].mode = "Read" =>
                  /\ sess'[t].acq = "incremented"
                  /\ lockmap'[sess[t].path] = LockRead(lockmap[sess[t].path].n + 1)]_vars

\* C5: of an RRQ and a WRQ session for the same existing file, with writing
\* permitted, the one that reaches check_lock_file while the other holds the
\* path is answered ERROR(NotDefined, "file is locked").
C5_SecondIsRefused ==
    [][\A s \in Sess, t \in Sess :
         ( /\ s # t
           /\ {sess[s].op, sess[t].op} = {"Read", "Write"}
           /\ sess[s].path = sess[t].path
           /\ write_mode # "Disabled"
           /\ Holding(sess[s])
           /\ sess[t].pc = "lock" /\ sess'[t].pc # "lock"
           /\ fs[Resolve(sess[t].path)] # Absent )
         => /\ sess'[t].acq = "refused"
            /\ sess'[t].pc = "done"
            /\ sess'[t].sent = Append(sess[t].sent, FileIsLocked)]_vars

\* a reader is in its transfer and a WRQ for the same existing file was
\* answered "file is locked"
C5_Witness ==
    \E s \in Sess, t \in Sess :
       /\ sess[s].op = "Read" /\ Holding(sess[s]) /\ sess[s].pc = "wait_ack"
       /\ sess[t].op = "Write" /\ sess[t].path = sess[s].path
       /\ sess[t].acq = "refused"
       /\ sess[t].sent = <<FileIsLocked>>
       /\ fs[Resolve(sess[t].path)] # Absent

\* C6: an RRQ whose file name denotes a location outside root_dir is answered
\* ERROR(FileNotFound) and its session neither locks nor opens the path.
C6_EscapingReadIsRefused ==
    \A s \in Sess :
       (sess[s].op = "Read" /\ Outside(sess[s].fname)) =>
          /\ sess[s].acq = "none"
          /\ ~sess[s].opened
          /\ \A i \in 1..Len(sess[s].sent) :
                sess[s].sent[i] = ErrorPkt(FileNotFound, "unknown")
          /\ sess[s].pc = "done" => RepliedError(sess[s], FileNotFound)

\* the WRQ session s was answered with this error by the step, which created
\* no file and left the lock table alone
WriteRefused(s, number) ==
    /\ RepliedError(sess'[s], number)
    /\ ~sess'[s].created
    /\ fs' = fs
    /\ lockmap' = lockmap

\* C7 as stated: every WRQ is answered AccessViolation under write mode
\* Disabled and FileAlreadyExists when its target exists and the write mode is
\* not Overwrite; no file is created or truncated, the lock table is unchanged.
C7_WriteRefusedAsStated ==
    [][\A s \in Sess :
         (sess[s].pc = "idle" /\ sess'[s].op = "Write") =>
            /\ write_mode = "Disabled" => WriteRefused(s, AccessViolation)
            /\ (write_mode = "WriteNew" /\ fs[Target(sess'[s].fname)] # Absent)
                  => WriteRefused(s, FileAlreadyExists)]_vars

\* C7: every WRQ is answered AccessViolation under write mode Disabled; under
\* another mode than Overwrite it is answered FileAlreadyExists when its target
\* exists and its path passed get_file_path, and FileNotFound when the path
\* did not pass; no file is created or truncated, the lock table is unchanged.
C7_WriteRefused ==
    [][\A s \in Sess :
         (sess[s].pc = "idle" /\ sess'[s].op = "Write") =>
            /\ write_mode = "Disabled" => WriteRefused(s, AccessViolation)
            /\ ( /\ write_mode = "WriteNew"
                 /\ fs[Target(sess'[s].fname)] # Absent
                 /\ PathStartsWith(PathJoin(root_dir, sess'[s].fname), root_dir) )
                  => WriteRefused(s, FileAlreadyExists)
            /\ ( /\ write_mode # "Disabled"
                 /\ ~PathStartsWith(PathJoin(root_dir, sess'[s].fname), root_dir) )
                  => WriteRefused(s, FileNotFound)]_vars

\* under write mode new a WRQ for an existing file below root_dir was
\* answered FileAlreadyExists
C7_Witness ==
    \E s \in Sess :
       /\ write_mode = "WriteNew"
       /\ sess[s].op = "Write"
       /\ sess[s].fname = [abs |-> FALSE, comps |-> <<"a">>]
       /\ RepliedError(sess[s], FileAlreadyExists)
       /\ ~sess[s].created

\* C10: an RRQ session for a file of k >= 1 full blocks that had its k-th
\* block acknowledged has sent DATA k+1 with an empty payload, and it ends
\* with success only after that.
C10_ServerSendsEmptyFinal ==
    \A s \in Sess :
       LET c == sess[s]
           flen == fs[Resolve(c.path)]
           final == Pkt("DATA", AddU16(flen \div c.blocksize, 1), 0, "")
       IN ( /\ c.op = "Read"
            /\ c.path # NoPath
            /\ flen > 0
            /\ flen % c.blocksize = 0 )
          => /\ (c.pc = "wait_ack" /\ c.blocknr = final.blk) => c.frames = <<final>>
             /\ (c.pc = "done" /\ c.result = "ok") =>
                   \E i \in 1..Len(c.sent) : c.sent[i] = final

(***************************************************************************)
(* Properties of the option negotiation (SpecOpts).                        *)
(***************************************************************************)
OacksOf(c) == {c.sent[i] : i \in {j \in 1..Len(c.sent) : c.sent[j].op = "OACK"}}

\* C17: for a request whose blksize option parses as a 16-bit decimal the
\* block size the session uses, and the one it echoes in OACK, lies in
\* 8..MAX_BLOCKSIZE
C17_BlocksizeClamped ==
    \A s \in Sess :
        LET c == sess[s] IN
        (c.pc # "idle" /\ c.opts.blksize # NotCarried /\ ParsesU16(c.opts.blksize)
                       /\ filter_extended_options(c.opts).ok)
            => /\ c.blocksize \in 8..MAX_BLOCKSIZE
               /\ \A o \in OacksOf(c) :
                     o.blk # NotCarried => o.blk \in 8..MAX_BLOCKSIZE

\* C18: an OACK is sent iff the request carried a recognized option, and it
\* echoes exactly the recognized options the request carried, with the
\* values of the session, even when a value equals the default
C18_OackEchoesCarriedOptions ==
    \A s \in Sess :
        LET c == sess[s] IN
        (c.pc # "idle" /\ filter_extended_options(c.opts).ok)
            => /\ (OacksOf(c) # {})
                      <=> (c.opts.blksize # NotCarried \/ c.opts.windowsize # NotCarried)
               /\ \A o \in OacksOf(c) :
                     /\ (o.blk # NotCarried) <=> (c.opts.blksize # NotCarried)
                     /\ (o.len # NotCarried) <=> (c.opts.windowsize # NotCarried)
                     /\ o.blk # NotCarried => o.blk = c.blocksize
                     /\ o.len # NotCarried => o.len = c.windowsize

\* C19: a session whose last packet is the OACK sends no DATA and no ACK
\* in a step that is not the arrival of the peer's response
C19_SilentAfterOack ==
    [][\A s \in Sess :
          (/\ sess[s].sent # <<>>
           /\ sess[s].sent[Len(sess[s].sent)].op = "OACK"
           /\ sess[s].pc \notin {"wait_ack", "wait_data"})
              => \A i \in (Len(sess[s].sent) + 1)..Len(sess'[s].sent) :
                    sess'[s].sent[i].op \notin {"DATA", "ACK"}]_vars

\* C11: a read session with a window of more than one block that opened its
\* file has sent the first frame of the first window, DATA(1) of at most
\* blksize bytes
C11_WindowIsSent ==
    \A s \in Sess :
        LET c == sess[s] IN
        (c.op = "Read" /\ c.windowsize > 1 /\ c.blocksize >= 1 /\ c.opened
                       /\ c.result # "err")
            => \E i \in 1..Len(c.sent) :
                  /\ c.sent[i].op = "DATA"
                  /\ c.sent[i].blk = 1
                  /\ c.sent[i].len <= c.blocksize

(***************************************************************************)
(* Properties of the client against the server (SpecClient).               *)
(***************************************************************************)
NameB == [abs |-> FALSE, comps |-> <<"b">>]

\* the packets the client has sent, in order
ClientSent == [i \in 1..Len(cli.sent) |-> cli.sent[i].pkt]

IsPrefix(p, q) == Len(p) <= Len(q) /\ p = SubSeq(q, 1, Len(p))

\* the upload of a 0-byte file without options, of a name the server lets
\* the client write
EmptyUpload ==
    /\ cli.pc # "start"
    /\ cli.op = "Write"
    /\ srcLen = 0
    /\ RequestOpts(cli) = NoOpts
    /\ \/ write_mode = "WriteOverwrite"
       \/ write_mode = "WriteNew" /\ cli.fname = NameB

\* no step of the client or the session is possible
Halted == ~ENABLED NextClient

EmptyUploadDone ==
    /\ ClientSent = <<Request("Write"), Data(1, <<>>)>>
    /\ sess[1].sent = <<Pkt("ACK", 0, 0, ""), Pkt("ACK", 1, 0, "")>>
    /\ s_pc = "end"
    /\ sess[1].pc = "done"
    /\ sess[1].result = "ok"
    /\ fs[Resolve(sess[1].path)] = 0

\* C12: in the upload of a 0-byte file without options the client sends WRQ
\* and then DATA(1, empty), the latter after it read ACK(0); the session
\* sends ACK(0) and then ACK(1), the latter after DATA(1); neither party
\* fails, and when both have halted the client's engine has returned End, the
\* session has ended without error and the file it wrote is empty
C12_EmptyUploadExchange ==
    EmptyUpload =>
        /\ IsPrefix(ClientSent, <<Request("Write"), Data(1, <<>>)>>)
        /\ IsPrefix(sess[1].sent, <<Pkt("ACK", 0, 0, ""), Pkt("ACK", 1, 0, "")>>)
        /\ Len(cli.sent) = 2 => cli.sent[2].seen = 1
        /\ Len(sess[1].sent) = 2 => Len(cli.sent) = 2
        /\ s_pc \notin {"timeout", "error", "panic"}
        /\ sess[1].pc # "panicked"
        /\ sess[1].result # "err"
        /\ s_pc = "end" => EmptyUploadDone
        /\ Halted => EmptyUploadDone

C12_Witness == EmptyUpload /\ Halted /\ EmptyUploadDone

\* C20: a client that read an OACK in reply to its RRQ has sent ACK(0) when
\* it waits for the first DATA; after an OACK in reply to its WRQ the next
\* packet it sends is DATA block 1
C20_ClientAnswersOack ==
    (cli.pc \in {"upload", "download"} /\ cli.oack) =>
        /\ cli.op = "Read" => \E i \in 1..Len(cli.sent) : cli.sent[i].pkt = Ack(0)
        /\ (cli.op = "Write" /\ Len(cli.sent) >= 2)
              => (cli.sent[2].pkt.op = "DATA" /\ cli.sent[2].pkt.blk = 1)

\* the block size and the window size the client's engine was constructed with
EngineBlksize == IF cli.pc = "upload" THEN snd.blksize ELSE rcv.blksize
EngineWindowsize == IF cli.pc = "upload" THEN snd.windowssize ELSE rcv.windowssize

\* C21: the client's engine runs with a blksize other than 512 or a
\* windowsize other than 1 only if the client read an OACK that echoes the
\* value
C21_OptionsOnlyFromOack ==
    cli.pc \in {"upload", "download"} =>
        /\ EngineBlksize # DEFAULT_BLOCKSIZE
              => (cli.oack /\ \E o \in OacksOf(sess[1]) : o.blk = EngineBlksize)
        /\ EngineWindowsize # DEFAULT_WINDOWSIZE
              => (cli.oack /\ \E o \in OacksOf(sess[1]) : o.len = EngineWindowsize)

(***************************************************************************)
(* Properties of the functions of the protocol module (SpecCalls).         *)
(***************************************************************************)
\* C23: ring_diff(a, b) returns (b - a) mod 2^16 and never aborts
C23_RingDiffIsForwardDistance ==
    call.fn = "ring_diff" =>
        /\ ~call.panic
        /\ call.ret = (call.b - call.a) % U16

\* the options send_initial_packet puts into a request, as strings
BuiltOptions(pkt) ==
    LET m1 == IF pkt.blksize # DEFAULT_BLOCKSIZE
              THEN HashMap_insert(HashMap_new, BLKSIZE_STR, to_string(pkt.blksize))
              ELSE HashMap_new
    IN IF pkt.windowsize # DEFAULT_WINDOWSIZE
       THEN HashMap_insert(m1, WINDOW_STR, to_string(pkt.windowsize))
       ELSE m1

\* C22: parsing the bytes built for a packet yields the opcode, block number,
\* payload, file name, mode and options that were built (the options as the
\* strings built, which read as decimal numbers give the values again); of
\* an ERROR it yields the code, and the message when the code is NotDefined
C22_ParseOfBuild ==
    call.fn = "codec" =>
        LET pkt == call.pkt
            parsed == call.parsed
        IN /\ parsed.kind = pkt.kind
           /\ pkt.kind \in {"Ack", "Data"} => parsed.blk = pkt.blk
           /\ pkt.kind = "Data" => parsed.payload = pkt.payload
           /\ pkt.kind \in {"Read", "Write"} =>
                 /\ parsed.filename = pkt.filename
                 /\ parsed.mode = pkt.mode
                 /\ parsed.options = BuiltOptions(pkt)
                 /\ \A k \in DOMAIN parsed.options :
                       LET v == IF k = BLKSIZE_STR THEN pkt.blksize ELSE pkt.windowsize IN
                       v < U16 => from_str_radix(parsed.options[k]) = v
           /\ pkt.kind = "Error" =>
                 /\ parsed.number = pkt.number
                 /\ pkt.number = NotDefined => parsed.msg = pkt.msg

C22_Witness ==
    /\ call.fn = "codec"
    /\ call.pkt.kind = "Write"
    /\ call.pkt.blksize = MAX_BLOCKSIZE
    /\ call.pkt.windowsize = 2
    /\ DOMAIN call.parsed.options = {BLKSIZE_STR, WINDOW_STR}
    /\ Len(call.bytes) > ACK_LEN

(***************************************************************************)
(* A SendStateMachine polled by a loop whose peer acknowledges nothing.    *)
(* Time is counted in seconds; the loop polls at once or after recv_next   *)
(* has blocked for SEND_RECV_BLOCK_TIMEOUT.                                *)
(***************************************************************************)
RESEND_TIMEOUT == 2
SEND_RECV_BLOCK_TIMEOUT == 1

\* Instant::elapsed, read only by the comparison elapsed > RESEND_TIMEOUT
Clock(t) == Min(t, RESEND_TIMEOUT + 1)

NoAck == -1

\* the record of the polls: the SendAction last returned, the time since the
\* timer started (age), the time between the last emission and the last poll
\* (waited), the time since the last emission (since), the number of
\* emissions, the queue emitted first, and the ACK handled since the last poll
NoPoll ==
    [fn |-> "next", action |-> "none", age |-> 0, waited |-> 0, since |-> 0,
     emitted |-> 0, first |-> <<>>, ack |-> NoAck]

poll_unch ==
    UNCHANGED <<build, srcLen, rcv, r_pc, r_ev, d2r, a2s, sinkLen, sinkOk, faults,
                cli, svars>>

\* window_buffer.next(), dt seconds after the previous call
Poll(dt) ==
    /\ s_pc = "next"
    /\ LET age == IF snd.timeout = "unset" THEN 0 ELSE Clock(call.age + dt)
           waited == Clock(call.since + dt)
           n == next(snd, age > RESEND_TIMEOUT)
           sends == n.action = "SendBuffer"
       IN /\ snd' = n.st
          /\ s_pc' = CASE n.action = "End" -> "end"
                       [] n.action = "Timeout" -> "timeout"
                       [] OTHER -> "next"
          /\ s_out' = IF sends THEN n.st.bufs ELSE s_out
          /\ call' = [fn |-> "next", action |-> n.action, age |-> age,
                      waited |-> waited,
                      since |-> IF sends THEN 0 ELSE waited,
                      emitted |-> IF sends THEN call.emitted + 1 ELSE call.emitted,
                      first |-> IF sends /\ call.emitted = 0 THEN n.st.bufs
                                ELSE call.first,
                      ack |-> NoAck]
    /\ poll_unch

\* the block numbers of the ACKs that do not advance the window: the block
\* acknowledged last and the first block behind the window
StaleAcks(st) == {st.acked, AddU16(st.acked, st.windowssize + 1)}

\* ack_packet on an ACK that does not advance the window
SilentAck(b) ==
    /\ s_pc = "next"
    /\ b \in StaleAcks(snd)
    /\ snd' = ack_packet(snd, Ack(b))
    /\ s_pc' = IF snd'.panic THEN "panic" ELSE "next"
    /\ call' = [call EXCEPT !.ack = b]
    /\ UNCHANGED s_out
    /\ poll_unch

InitSilent ==
    /\ build \in {"debug", "release"}
    /\ srcLen \in 0..MaxLen
    /\ \E b \in 1..MaxBlk, w \in 1..MaxWin :
         /\ snd = SendStateMachine_new(b, w)
         /\ rcv = RecvController_new(w, b)
    /\ s_pc = "next"
    /\ s_out = <<>>
    /\ r_pc = "off"
    /\ r_ev = NoEvent
    /\ d2r = {}
    /\ a2s = {}
    /\ sinkLen = 0
    /\ sinkOk = TRUE
    /\ faults = 0
    /\ cli = NoClient
    /\ call = NoPoll
    /\ NoServer

NextSilent ==
    \/ \E dt \in {0, SEND_RECV_BLOCK_TIMEOUT} : Poll(dt)
    \/ \E b \in StaleAcks(snd) : SilentAck(b)

SpecSilent == InitSilent /\ [][NextSilent]_vars

\* time passes: the loop polls again after SEND_RECV_BLOCK_TIMEOUT
SpecSilentFair == SpecSilent /\ WF_vars(Poll(SEND_RECV_BLOCK_TIMEOUT))

(***************************************************************************)
(* The steps of the engines.                                               *)
(***************************************************************************)
\* C24: for DATA(blk, payload) and d = (blk - acked) mod 2^16, fill_window
\* stores the payload in slot d iff 1 <= d <= windowsize and that slot is
\* empty; in every other case the window is left as it was; no datagram makes
\* it panic.
C24_AdmitRule ==
    call.fn = "fill_window" =>
        LET d == (call.pkt.blk - call.r.acked) % U16
            admitted == d \in 1..call.r.windowssize /\ call.r.window_buf[d] = None
        IN /\ call.admit # "panic"
           /\ call.window_buf = IF admitted
                                THEN [call.r.window_buf EXCEPT ![d] = call.pkt.data]
                                ELSE call.r.window_buf

\* the number of leading filled slots, the first short payload ending the run
Ready(r) ==
    CHOOSE k \in 0..r.windowssize :
        /\ \A i \in 1..k : r.window_buf[i] # None
        /\ \A i \in 1..(k - 1) : Len(r.window_buf[i]) >= r.blksize
        /\ \/ k = r.windowssize
           \/ k > 0 /\ Len(r.window_buf[k]) < r.blksize
           \/ r.window_buf[k + 1] = None

LastIsShort(r) == Ready(r) > 0 /\ Len(r.window_buf[Ready(r)]) < r.blksize

RECURSIVE JoinSlots(_, _, _)
JoinSlots(buf, from, to) ==
    IF from > to THEN <<>> ELSE buf[from] \o JoinSlots(buf, from + 1, to)

\* C25: write_window flushes iff ready = windowsize or the last ready payload
\* is short; a flush writes payloads 1..ready in slot order, shifts the window
\* left by ready, adds ready to acked mod 2^16, sends ACK(acked) and ends the
\* engine iff the last ready payload is short; without a flush nothing is
\* written, sent or changed.
C25_FlushRule ==
    call.fn = "write_window" =>
        LET r == call.r
            ready == Ready(r)
            W == r.windowssize
        IN /\ call.flush <=> (ready = W \/ LastIsShort(r))
           /\ call.flush =>
                /\ call.written = JoinSlots(r.window_buf, 1, ready)
                /\ call.after.window_buf =
                       [i \in 1..W |-> IF i + ready <= W THEN r.window_buf[i + ready]
                                       ELSE None]
                /\ call.after.acked = (r.acked + ready) % U16
                /\ call.ack = <<Ack((r.acked + ready) % U16)>>
                /\ call.ret <=> LastIsShort(r)
           /\ ~call.flush =>
                /\ call.written = <<>>
                /\ call.after = r
                /\ call.ack = <<>>
                /\ ~call.ret

\* a window of three whose second payload is short and whose third is filled
\* is flushed up to the short one; the engine ends
C25_Witness ==
    /\ call.fn = "write_window"
    /\ call.r.windowssize = 3
    /\ call.r.acked = U16 - 1
    /\ call.r.window_buf = <<(<<7, 8>>), (<<7>>), (<<7, 8>>)>>
    /\ call.flush
    /\ call.written = <<7, 8, 7>>
    /\ call.ret

\* a short block behind an empty slot: no flush
C25_ShortBehindGap ==
    /\ call.fn = "write_window"
    /\ call.r.window_buf = <<(<<7, 8>>), None, (<<7>>)>>
    /\ ~call.flush

\* C26: ack_packet leaves the state alone for a datagram that is not an ACK
\* and for an ACK with d = (b - acked) mod 2^16 above the windowsize; for every
\* d in 0..windowsize it pops d frames, adds d to acked mod 2^16, sets
\* new_acked and resets the timer and the retry counter.
C26_AckPacketEffect ==
    call.fn = "ack_packet" =>
        LET st == call.s
            a == call.after
            d == (call.pkt.blk - st.acked) % U16
        IN IF call.pkt.op # "ACK" \/ d > st.windowssize THEN a = st
           ELSE /\ ~a.panic
                /\ a.bufs = SubSeq(st.bufs, d + 1, Len(st.bufs))
                /\ a.acked = (st.acked + d) % U16
                /\ a.new_acked
                /\ a.timeout = "unset"
                /\ a.retry = RETRY_COUNT

(***************************************************************************)
(* The sender without acknowledgements.                                    *)
(***************************************************************************)
\* C27: polled without any ACK that advances the window, the SEND engine
\* emits its queue once, re-emits the same whole queue only with its timer
\* expired and at most RETRY_COUNT times, taking one from the retry counter
\* each time, never returns End, and eventually returns Timeout.
C27_SilentPeerTimesOut ==
    /\ [](/\ call.action # "End"
          /\ s_pc \in {"next", "timeout"}
          /\ call.emitted <= 1 + RETRY_COUNT
          /\ call.emitted >= 1 =>
                /\ s_out = call.first
                /\ snd.bufs = call.first
                /\ call.first # <<>>
                /\ snd.retry = RETRY_COUNT - (call.emitted - 1)
          /\ call.emitted >= 2 => snd.timeout = "expired"
          /\ call.action = "Timeout" => call.emitted = 1 + RETRY_COUNT)
    /\ <>(s_pc = "timeout" /\ call.action = "Timeout")

\* the queue of a two-block window was emitted four times and next returned
\* Timeout
C27_Witness ==
    /\ s_pc = "timeout"
    /\ call.action = "Timeout"
    /\ call.emitted = 1 + RETRY_COUNT
    /\ Len(call.first) = 2
    /\ snd.retry = 0

\* C28: after an emission made because the timer expired, next returns
\* neither SendBuffer nor Timeout until RESEND_TIMEOUT has passed since that
\* emission.
C28_FreshExpiryPerResend ==
    [][(/\ call'.ack = NoAck
        /\ call.emitted >= 2
        /\ call'.action \in {"SendBuffer", "Timeout"})
          => call'.waited > RESEND_TIMEOUT]_vars

\* C29: next returns End exactly when the reader has ended and the queue is
\* empty, the whole source read; it returns Timeout only with the retry
\* counter at 0 and the timer expired.
C29_EndAndTimeout ==
    [][(s_pc = "next" /\ s_pc' # "next") =>
          /\ s_pc' = "end" <=> (snd'.is_reader_end /\ snd'.bufs = <<>>)
          /\ s_pc' = "end" => snd'.data_read = srcLen
          /\ s_pc' = "timeout" => (snd.retry = 0 /\ snd'.timeout = "expired")]_vars

\* End was returned for a source of more than one block, every block of it
\* removed from the queue by an ACK
C29_Witness ==
    /\ s_pc = "end"
    /\ srcLen > snd.blksize
    /\ snd.is_reader_end
    /\ snd.bufs = <<>>
    /\ snd.acked = (srcLen \div snd.blksize) + 1

\* Timeout was returned
C29_TimedOut ==
    /\ s_pc = "timeout"
    /\ snd.retry = 0
    /\ snd.bufs # <<>>

\* C30: over a channel that delivers every datagram once and in order, with
\* no timer expiring, a transfer stops only when the sender has returned End
\* and the receiver Ok, the whole source in the sink.
C30_PerfectChannelCompletes ==
    (~ENABLED NextWrap) =>
        /\ s_pc = "end"
        /\ r_pc = "ok"
        /\ sinkLen = srcLen

(***************************************************************************)
(* The receiver's retries.                                                 *)
(***************************************************************************)
\* C31: a datagram that fill_window rejects is dropped silently: it takes
\* nothing from the retries left and does not make fill_window return the
\* timeout error.
C31_RejectKeepsBudget ==
    [][(rcv' # rcv /\ r_ev'.kind = "reject") =>
          /\ rcv'.i_retry = rcv.i_retry
          /\ r_pc' # "err"]_vars

\* C32: when a receive attempt ends without a datagram and the engine keeps
\* waiting, it sends ACK(acked) before the next attempt, acked and the window
\* unchanged, whatever acked is (0 included).
C32_TimeoutResendsAck ==
    [][(rcv' # rcv /\ r_ev'.kind = "timeout" /\ r_pc' = "recv") =>
          /\ r_ev'.ack = "resend"
          /\ Ack(rcv.acked) \in a2s'
          /\ rcv'.acked = rcv.acked
          /\ rcv'.window_buf = rcv.window_buf]_vars

(***************************************************************************)
(* The upload and the peer's ERROR.                                        *)
(***************************************************************************)
\* C33: when upload_action receives an ERROR packet the upload ends there:
\* the SEND engine is left as it was, and from then on no frame is emitted
\* and the engine is not touched.
C33_PeerErrorEndsUpload ==
    [][/\ (s_pc = "recv" /\ ErrorDatagram \in a2s /\ ErrorDatagram \notin a2s') =>
            /\ s_pc' = "error"
            /\ snd' = snd
            /\ s_out' = s_out
            /\ d2r' = d2r
       /\ s_pc = "error" =>
            /\ s_pc' = "error"
            /\ snd' = snd
            /\ s_out' = s_out
            /\ d2r' \subseteq d2r]_vars

\* the ERROR arrived while frames of a window of two were unacknowledged, and
\* the receiver has taken what was in flight
C33_Witness ==
    /\ s_pc = "error"
    /\ r_pc = "aborted"
    /\ Len(snd.bufs) = 2
    /\ snd.acked >= 1
    /\ ~snd.is_end
    /\ a2s = {}

(***************************************************************************)
(* The client's first datagram.                                            *)
(***************************************************************************)
\* the datagram the engine's receive call hands over in this step
HandedOver(p) ==
    IF cli.pc = "download"
    THEN r_ev'.op = p.op /\ r_ev'.blk = p.blk /\ r_ev'.kind # "timeout"
    ELSE snd' = IF p.op = "ERROR" THEN snd ELSE ack_packet(snd, recv_buf(p))

\* a receive call of the engine returns in this step
ReceiveCall ==
    \/ cli.pc = "download" /\ (rcv' # rcv \/ r_pc' # r_pc)
    \/ cli.pc = "upload" /\ s_pc = "recv" /\ s_pc' # "recv"

\* C34: a first datagram that is not an OACK is deferred; the engine's first
\* receive call hands over that datagram without reading the socket, and
\* every other receive call that returns a datagram reads the next one from
\* the socket.
C34_FirstPacketOnce ==
    [][/\ (cli.pc = "first" /\ cli'.pc # "first") =>
            /\ cli'.defer <=> (cli'.rd = 1 /\ sess[1].sent[1].op # "OACK")
            /\ cli'.defer => cli'.read_buf = sess[1].sent[1]
       /\ ReceiveCall =>
            IF cli.defer
            THEN /\ cli.rd = 1
                 /\ cli'.rd = 1
                 /\ ~cli'.defer
                 /\ HandedOver(sess[1].sent[1])
            ELSE /\ ~cli'.defer
                 /\ \/ cli.pc = "download" /\ r_ev'.kind = "timeout" /\ cli'.rd = cli.rd
                    \/ /\ cli.rd < Len(sess[1].sent)
                       /\ cli'.rd = cli.rd + 1
                       /\ HandedOver(sess[1].sent[cli.rd + 1])]_vars

\* a download without OACK: DATA 1 was deferred, the first receive call
\* stored it and the download is complete, one datagram read from the socket
C34_Witness ==
    /\ cli.pc = "download"
    /\ ~cli.oack
    /\ ~cli.defer
    /\ cli.rd = 1
    /\ sess[1].sent[1].op = "DATA"
    /\ r_ev.kind = "store"
    /\ r_ev.blk = 1
    /\ r_pc = "ok"
    /\ sinkLen = srcLen
    /\ srcLen > 0

\* an upload without OACK: ACK 0 was deferred and handed to ack_packet, and
\* the ACK of the first window was read from the socket
C34_UploadWitness ==
    /\ cli.pc = "upload"
    /\ ~cli.oack
    /\ sess[1].sent[1] = [op |-> "ACK", blk |-> 0, len |-> sess[1].sent[1].len,
                          msg |-> sess[1].sent[1].msg]
    /\ cli.rd = 2
    /\ snd.acked = 1

(***************************************************************************)
(* The order of the session's steps.                                       *)
(***************************************************************************)
\* the ERROR packets with which a session refuses a request
Refusals ==
    {ErrorPkt(n, "unknown") : n \in {FileNotFound, AccessViolation, FileAlreadyExists}}
        \cup {FileIsLocked}

\* C35: a session that answers its request with ERROR (FileNotFound,
\* AccessViolation, FileAlreadyExists or "file is locked") has sent no OACK
\* before that ERROR.
C35_NoOackBeforeRefusal ==
    \A s \in Sess : \A i \in 1..Len(sess[s].sent), j \in 1..Len(sess[s].sent) :
       (i < j /\ sess[s].sent[j] \in Refusals) => sess[s].sent[i].op # "OACK"

\* C36: a session leaves its wait for an ACK or for DATA only through the exit
\* of run: whatever the peer does or fails to do, the session ends with its
\* lock released, and with an ERROR sent when it failed.
C36_SilentPeerNormalExit ==
    [][\A s \in Sess :
         (sess[s].pc \in {"wait_ack", "wait_data"}
            /\ sess'[s].pc \notin {"wait_ack", "wait_data"}) =>
               /\ sess'[s].pc = "done"
               /\ sess'[s].unlocked = (sess[s].locked # NoPath)
               /\ sess'[s].result = "err" =>
                     sess'[s].sent[Len(sess'[s].sent)].op = "ERROR"]_vars

\* the packets a session sends in this step
NewlySent(s) == SubSeq(sess'[s].sent, Len(sess[s].sent) + 1, Len(sess'[s].sent))

\* C37: a session that handles a WRQ with windowsize W acknowledges a block it
\* received only when the block completes a window of W blocks or is the
\* final short block.
C37_WriteAcksPerWindow ==
    [][\A s \in Sess :
         (sess[s].op = "Write" /\ sess[s].pc = "wait_data") =>
            \A i \in 1..Len(NewlySent(s)) :
               NewlySent(s)[i].op = "ACK" =>
                  \/ NewlySent(s)[i].blk % sess[s].windowsize = 0
                  \/ fs'[Resolve(sess[s].path)] - fs[Resolve(sess[s].path)]
                        < sess[s].blocksize]_vars

\* C38: ack never removes a frame from an empty queue: an ACK with
\* d = (b - acked) mod 2^16 <= windowsize does not abort the engine, is
\* ignored when d exceeds the length of the queue, and never moves acked past
\* the last frame of the queue.
C38_AckWithinQueue ==
    (call.fn = "ack_packet" /\ call.pkt.op = "ACK") =>
        LET st == call.s
            d == (call.pkt.blk - st.acked) % U16
        IN d <= st.windowssize =>
              /\ ~call.after.panic
              /\ d > Len(st.bufs) => call.after = st
              /\ (call.after.acked - st.acked) % U16 <= Len(st.bufs)

\* C39: a session whose check_lock_file returned false, or that never called
\* it, leaves the lock table as it is in every step it takes, its exit
\* included.
C39_RefusedSessionKeepsTable ==
    [][\A s \in Sess :
         (sess'[s] # sess[s] /\ sess'[s].acq \in {"none", "refused"}) =>
             lockmap' = lockmap]_vars

\* a session was refused the path another session holds and has left run; the
\* entry of the holder is still in the table
C39_Witness ==
    \E s \in Sess, t \in Sess :
       /\ s # t
       /\ sess[s].acq = "refused"
       /\ sess[s].pc = "done"
       /\ Holding(sess[t])
       /\ sess[t].path = sess[s].path
       /\ lockmap[sess[s].path] # Unlocked

(***************************************************************************)
(* The client's local file.                                                *)
(***************************************************************************)
\* C40: when the first datagram the client receives for its RRQ is an ERROR
\* packet, the local file is as it was when the client started: neither
\* created nor truncated.
C40_RejectedDownloadKeepsLocalFile ==
    (cli.op = "Read" /\ cli.rd >= 1 /\ sess[1].sent[1].op = "ERROR") =>
        cli.local = cli.local0

====
